---- MODULE Spec2Model ----
(***************************************************************************)
(* TinyBasic (src/main.c): the code store, the expression evaluator and    *)
(* the shell, as a state machine.                                          *)
(*                                                                         *)
(* Bytes are their ASCII codes (0..255).  size_t values that the code may  *)
(* drive below zero are kept as (small) signed integers; a negative one    *)
(* stands for the wrapped value 2^64 + x and is compared as such (SizeLt). *)
(***************************************************************************)
EXTENDS Integers, Sequences, FiniteSets, TLC

(***************************************************************************)
(* Bounds of the model                                                     *)
(***************************************************************************)
\* size of the code buffer in the model (the build uses 8192)
MemSize == 18
\* size of the code buffer in the specifications that run a program
RunMemSize == 64
\* number of calls of handle_run that may be in progress at once
MaxDepth == 3
\* number of lines typed at the shell in one behaviour of Spec
MaxLines == 4
\* literal values 1..MaxVal occur as operands in the typed expressions
MaxVal == 3

(***************************************************************************)
(* Configuration (main.c:18-23)                                            *)
(***************************************************************************)
NEWLINE == 10
BACKSPACE == 8
EXPR_MAX_TOKENS == 64
MAX_LINENUM == 10000

ET_NONE == 0
ET_VALUE == 1
ET_ADD == 2
ET_SUBTRACT == 3
ET_MULTIPLY == 4
ET_DIVIDE == 5
ET_REMAINDER == 6
ET_AND == 7
ET_OR == 8
ET_XOR == 9
ET_INVERT == 10
ET_SUBEXPR_OPEN == 11
ET_SUBEXPR_CLOSE == 12
ET_SUBEXPR == 4

(***************************************************************************)
(* Characters                                                              *)
(***************************************************************************)
Code ==
  ("0" :> 48) @@ ("1" :> 49) @@ ("2" :> 50) @@ ("3" :> 51) @@ ("4" :> 52) @@
  ("5" :> 53) @@ ("6" :> 54) @@ ("7" :> 55) @@ ("8" :> 56) @@ ("9" :> 57) @@
  ("A" :> 65) @@ ("B" :> 66) @@ ("C" :> 67) @@ ("D" :> 68) @@ ("E" :> 69) @@
  ("F" :> 70) @@ ("G" :> 71) @@ ("H" :> 72) @@ ("I" :> 73) @@ ("J" :> 74) @@
  ("K" :> 75) @@ ("L" :> 76) @@ ("M" :> 77) @@ ("N" :> 78) @@ ("O" :> 79) @@
  ("P" :> 80) @@ ("Q" :> 81) @@ ("R" :> 82) @@ ("S" :> 83) @@ ("T" :> 84) @@
  ("U" :> 85) @@ ("V" :> 86) @@ ("W" :> 87) @@ ("X" :> 88) @@ ("Y" :> 89) @@
  ("Z" :> 90) @@ ("a" :> 97) @@ ("b" :> 98) @@ ("c" :> 99) @@ ("d" :> 100) @@
  ("e" :> 101) @@ ("f" :> 102) @@ ("g" :> 103) @@ ("h" :> 104) @@ ("i" :> 105) @@
  ("j" :> 106) @@ ("k" :> 107) @@ ("l" :> 108) @@ ("m" :> 109) @@ ("n" :> 110) @@
  ("o" :> 111) @@ ("p" :> 112) @@ ("q" :> 113) @@ ("r" :> 114) @@ ("s" :> 115) @@
  ("t" :> 116) @@ ("u" :> 117) @@ ("v" :> 118) @@ ("w" :> 119) @@ ("x" :> 120) @@
  ("y" :> 121) @@ ("z" :> 122) @@ (" " :> 32) @@ ("=" :> 61) @@ ("+" :> 43) @@
  ("-" :> 45) @@ ("*" :> 42) @@ ("/" :> 47) @@ ("%" :> 37) @@ ("&" :> 38) @@
  ("|" :> 124) @@ ("^" :> 94) @@ ("!" :> 33) @@ ("(" :> 40) @@ (")" :> 41) @@
  ("<" :> 60) @@ (">" :> 62) @@ (":" :> 58) @@ ("," :> 44)

\* the text s (a tuple of one-character strings) as a sequence of bytes
T(s) == [i \in 1..Len(s) |-> Code[s[i]]]

isdigit(c) == c >= 48 /\ c <= 57
isalpha(c) == (c >= 65 /\ c <= 90) \/ (c >= 97 /\ c <= 122)
isalnum(c) == isdigit(c) \/ isalpha(c)
isxdigit(c) == isdigit(c) \/ (c >= 65 /\ c <= 70) \/ (c >= 97 /\ c <= 102)
isblank(c) == c = 32 \/ c = 9
toupper(c) == IF c >= 97 /\ c <= 122 THEN c - 32 ELSE c

(***************************************************************************)
(* size_t comparison of values that may have wrapped below zero            *)
(***************************************************************************)
SizeLt(a, b) ==
  IF a >= 0 /\ b >= 0 THEN a < b
  ELSE IF a >= 0 THEN TRUE
  ELSE IF b >= 0 THEN FALSE
  ELSE a < b

(***************************************************************************)
(* The state                                                               *)
(***************************************************************************)
VARIABLES
  codemem,          \* char codemem[CODE_MEMORY_SIZE]
  codemem_end,      \* the byte after the last saved line
  newline_ind,      \* the first byte of the new line
  newline_end,      \* the byte after the new line
  expr_tokens,      \* ExprToken expr_tokens[EXPR_MAX_TOKENS]
  expr_token_count,
  variables,        \* var_t variables[26]
  current_line,
  pc,               \* "read" (handle_shell), "execute" (execute_newline), "run" (the run
                    \* loop), "input" (GETCHAR of handle_input), "new" (of handle_new)
  input,            \* characters of the line being typed that GETCHAR has not delivered yet
  typed,            \* history: the characters GETCHAR delivered for the last line
  lines,            \* history: number of lines typed so far
  msg,              \* the error message printed by the last statement ("none" if none)
  status,           \* "running", or "crashed" once the process has been killed
  run_stack,        \* handle_run: the index of each run loop in progress, the innermost last
  nextline,         \* handle_run: what execute_command returned to the run loop last
  variable,         \* handle_input: the target, while the response is read
  msgline           \* the line number printed with msg (0 if none)

vars == <<codemem, codemem_end, newline_ind, newline_end, expr_tokens,
          expr_token_count, variables, current_line, pc, input, typed, lines,
          msg, status, run_stack, nextline, variable, msgline>>

\* The build's buffer has 8192 bytes; the model's is smaller, and each
\* specification fixes its size when it starts (MemSize, RunMemSize).
CODE_MEMORY_SIZE == Cardinality(DOMAIN codemem)

(***************************************************************************)
(* Memory access.  A handler works on the buffer extended by the byte that *)
(* follows the array (index CODE_MEMORY_SIZE), whose content is not the    *)
(* program's to know; what lies further is read as 0.                      *)
(***************************************************************************)
Rd(m, i) == IF i \in DOMAIN m THEN m[i] ELSE 0
Wr(m, i, b) == IF i \in DOMAIN m THEN [m EXCEPT ![i] = b] ELSE m
Extend(mem, oob) == [i \in 0..CODE_MEMORY_SIZE |-> IF i < CODE_MEMORY_SIZE THEN mem[i] ELSE oob]
Restrict(m) == [i \in 0..(CODE_MEMORY_SIZE - 1) |-> m[i]]

RECURSIVE strlen(_, _)
strlen(m, i) == IF Rd(m, i) = 0 THEN 0 ELSE 1 + strlen(m, i + 1)

RECURSIVE skip_spaces(_, _)
skip_spaces(m, index) ==
  IF isblank(Rd(m, index)) THEN skip_spaces(m, index + 1) ELSE index

\* while (isalnum(codemem[index + length]) && index + length < newline_end) length++
RECURSIVE AlnumRun(_, _, _)
AlnumRun(m, index, nend) ==
  IF isalnum(Rd(m, index)) /\ index < nend THEN 1 + AlnumRun(m, index + 1, nend) ELSE 0

\* var_t is int32_t: the values are those of two's complement on 32 bits, and
\* an operation that leaves the range wraps around, as the build computes it
INT32_MIN == -2147483647 - 1

\* result * radix + digit on 32 bits, computed on the two 16-bit halves
MulAdd32(result, radix, digit) ==
  LET low == (result % 65536) * radix + digit
      high == (result \div 65536) * radix + (low \div 65536)
  IN  (((high + 32768) % 65536) - 32768) * 65536 + (low % 65536)

\* value *= -1 on 32 bits
Neg32(value) == IF value = INT32_MIN THEN INT32_MIN ELSE -value

\* the digit loops of get_literal_number: [value, error]
RECURSIVE RadixLoop(_, _, _, _)
RadixLoop(m, index, radix, result) ==
  LET c == Rd(m, index)
      indigits == IF radix = 16 THEN isxdigit(c) ELSE isdigit(c)
      digit == IF radix = 16
               THEN (IF toupper(c) > 57 THEN toupper(c) - 55 ELSE toupper(c) - 48)
               ELSE c - 48
      limit == IF radix = 16 THEN 16 ELSE radix - 1
  IN  IF ~indigits THEN [value |-> result, error |-> FALSE]
      ELSE IF digit > limit THEN [value |-> 0, error |-> TRUE]
      ELSE RadixLoop(m, index + 1, radix, MulAdd32(result, radix, digit))

get_literal_number(m, index, nend) ==
  LET length == AlnumRun(m, index, nend)
  IN  IF length > 2 /\ Rd(m, index) = 48 /\ Rd(m, index + 1) = 98
        THEN RadixLoop(m, index + 2, 2, 0)
      ELSE IF length > 2 /\ Rd(m, index) = 48 /\ Rd(m, index + 1) = 120
        THEN RadixLoop(m, index + 2, 16, 0)
      ELSE IF length > 1 /\ Rd(m, index) = 48
        THEN RadixLoop(m, index + 1, 8, 0)
      ELSE RadixLoop(m, index, 10, 0)

(***************************************************************************)
(* Printing numbers.  print_unsigned takes the 32 bits of its argument as  *)
(* a uvar_t: a negative int32 value v stands for v + 2^32, and             *)
(* 2^32 = 429496729 * 10 + 6.                                              *)
(***************************************************************************)
UDiv10(v) == IF v >= 0 THEN v \div 10 ELSE 429496729 + ((v + 6) \div 10)

UMod10(v) == IF v >= 0 THEN v % 10 ELSE (v + 6) % 10

\* while (tvalue > 9) { length++; tvalue /= 10; }
RECURSIVE DecimalLength(_)
DecimalLength(tvalue) ==
  IF tvalue < 0 \/ tvalue > 9 THEN 1 + DecimalLength(UDiv10(tvalue)) ELSE 1

\* for (i = 0; i < length; i++) tvalue /= 10
RECURSIVE DivideTimes(_, _)
DivideTimes(tvalue, length) ==
  IF length = 0 THEN tvalue ELSE DivideTimes(UDiv10(tvalue), length - 1)

\* while (length--) { ...; PUTCHAR(&tvalue); }
RECURSIVE PrintDigits(_, _)
PrintDigits(value, length) ==
  IF length = 0 THEN <<>>
  ELSE <<UMod10(DivideTimes(value, length - 1)) + 48>> \o PrintDigits(value, length - 1)

print_unsigned(value) == PrintDigits(value, DecimalLength(value))

\* a print_signed that leaves out the sign
print_signed_Magnitude(value) ==
  IF value < 0 THEN print_unsigned(Neg32(value)) ELSE print_unsigned(value)

print_signed(value) ==
  IF value < 0 THEN <<45>> \o print_unsigned(Neg32(value)) ELSE print_unsigned(value)

(***************************************************************************)
(* Code memory handling                                                    *)
(***************************************************************************)
load_line_t(m, index) == Rd(m, index) + 256 * Rd(m, index + 1)

store_line_t(m, index, linenum) ==
  Wr(Wr(m, index, linenum % 256), index + 1, (linenum \div 256) % 256)

get_line_num(m, index, nend) ==
  LET r == get_literal_number(m, index, nend)
  IN  IF r.value <= 0 \/ r.value >= MAX_LINENUM \/ r.error THEN 0 ELSE r.value

\* while (codemem[index++] != '\0') if (index >= codemem_end) break;
RECURSIVE SkipBody(_, _, _)
SkipBody(m, index, ce) ==
  IF Rd(m, index) = 0 THEN index + 1
  ELSE IF index + 1 >= ce THEN index + 1
  ELSE SkipBody(m, index + 1, ce)

RECURSIVE LineScan(_, _, _, _, _)
LineScan(m, ce, linenum, exact, index) ==
  IF index >= ce THEN index
  ELSE IF (exact /\ load_line_t(m, index) = linenum)
          \/ (~exact /\ load_line_t(m, index) >= linenum) THEN index
  ELSE LineScan(m, ce, linenum, exact, SkipBody(m, index + 2, ce))

get_line_index(m, ce, linenum) == LineScan(m, ce, linenum, TRUE, 0) + 2

get_potential_line_index(m, ce, linenum) == LineScan(m, ce, linenum, FALSE, 0) + 2

\* for (i = 0; i < length; i++) codemem[index - amount + i] = codemem[index + i]
RECURSIVE ShiftLeftFrom(_, _, _, _, _)
ShiftLeftFrom(m, index, length, amount, i) ==
  IF i >= length THEN m
  \* a store outside the array is dropped, as in Wr
  ELSE IF index - amount + i \notin DOMAIN m
    THEN ShiftLeftFrom(m, index, length, amount, i + 1)
  ELSE ShiftLeftFrom([m EXCEPT ![index - amount + i] = Rd(m, index + i)],
                     index, length, amount, i + 1)

codemem_shift_left(m, index, length, amount) == ShiftLeftFrom(m, index, length, amount, 0)

\* while (length--) codemem[index + amount + length] = codemem[index + length]
RECURSIVE codemem_shift_right(_, _, _, _)
codemem_shift_right(m, index, length, amount) ==
  IF length <= 0 THEN m
  \* a store outside the array is dropped, as in Wr
  ELSE IF index + amount + length - 1 \notin DOMAIN m
    THEN codemem_shift_right(m, index, length - 1, amount)
  ELSE codemem_shift_right([m EXCEPT ![index + amount + length - 1] = Rd(m, index + length - 1)],
                           index, length - 1, amount)

\* for (i = 0; i < n; i++) codemem[dst + i] = codemem[src + i]
RECURSIVE CopyUp(_, _, _, _, _)
CopyUp(m, dst, src, n, i) ==
  IF i >= n THEN m
  \* a store outside the array is dropped, as in Wr
  ELSE IF dst + i \notin DOMAIN m THEN CopyUp(m, dst, src, n, i + 1)
  ELSE CopyUp([m EXCEPT ![dst + i] = Rd(m, src + i)], dst, src, n, i + 1)

\* while (isblank(codemem[ind + newlinelen - 1])) newlinelen--
RECURSIVE StripBlanks(_, _, _)
StripBlanks(m, ind, newlinelen) ==
  IF isblank(Rd(m, ind + newlinelen - 1)) THEN StripBlanks(m, ind, newlinelen - 1)
  ELSE newlinelen

\* a memory requirement of the record alone
OutOfMemory_Record(ce, newlinelen) == SizeLt(CODE_MEMORY_SIZE - ce, newlinelen + 3)

\* the memory requirement of store_newline (main.c:526)
OutOfMemory(ce, newlinelen) == SizeLt(CODE_MEMORY_SIZE - ce, newlinelen + 8)

\* an insertion that makes no room for the terminator
InsertLine_NoTerminator(m, ce, lineind, linenum, ind, newlinelen) ==
  LET staged == CopyUp(m, CODE_MEMORY_SIZE - newlinelen, ind, newlinelen, 0)
      shift_amount == newlinelen + 2
      shifted == IF lineind < ce
                 THEN codemem_shift_right(staged, lineind, ce - lineind, shift_amount)
                 ELSE staged
      numbered == store_line_t(shifted, lineind, linenum)
  IN  [mem |-> CopyUp(numbered, lineind + 2, CODE_MEMORY_SIZE - newlinelen, newlinelen, 0),
       ce |-> ce + shift_amount]

\* the staging copy, the right shift and the copy into place (main.c:531-547)
InsertLine(m, ce, lineind, linenum, ind, newlinelen) ==
  LET staged == CopyUp(m, CODE_MEMORY_SIZE - newlinelen, ind, newlinelen, 0)
      shift_amount == newlinelen + 3
      shifted == IF lineind < ce
                 THEN codemem_shift_right(staged, lineind, ce - lineind, shift_amount)
                 ELSE staged
      numbered == store_line_t(shifted, lineind, linenum)
      closed == Wr(numbered, lineind + newlinelen + 2, 0)
  IN  [mem |-> CopyUp(closed, lineind + 2, CODE_MEMORY_SIZE - newlinelen, newlinelen, 0),
       ce |-> ce + shift_amount]

\* what store_newline leaves: the buffer, codemem_end and newline_end, the
\* message it prints, and whether the process survives
Stored(m, ce, nend, message, crashed) ==
  [mem |-> m, ce |-> ce, nend |-> nend, msg |-> message, crashed |-> crashed]

Inserted(ins, nend) == Stored(ins.mem, ins.ce, nend, "none", FALSE)

\* main.c:525-547, the body length known
StoreStripped(m, ce, nend, linenum, ind, lineind, newlinelen) ==
  IF OutOfMemory(ce, newlinelen) THEN Stored(m, ce, nend, "oom", FALSE)
  \* newlinelen wrapped: the staging copy runs off the buffer
  ELSE IF newlinelen < 0 THEN Stored(m, ce, nend, "none", TRUE)
  ELSE Inserted(InsertLine(m, ce, lineind, linenum, ind, newlinelen), nend)

\* main.c:518-523, after the deletion
StoreBody(m, ce, nend, linenum, ind, lineind) ==
  IF nend - ind = 0 THEN Stored(m, ce, nend, "none", FALSE)
  ELSE StoreStripped(m, ce, nend, linenum, ind, lineind, StripBlanks(m, ind, nend - ind))

\* main.c:507-512, the deletion of the record at lineind
DeleteLine(m, ce, nend, linenum, ind, lineind, linelen) ==
  \* the shift length wrapped: the copy runs off the buffer
  IF ce - (lineind + linelen) < 0 THEN Stored(m, ce, nend, "none", TRUE)
  ELSE StoreBody(codemem_shift_left(m, lineind + linelen, ce - (lineind + linelen), linelen),
                 ce - linelen, nend, linenum, ind, lineind)

\* main.c:503-516, lineind == get_line_index(linenum)
StoreAt(m, ce, nend, linenum, ind, lineind) ==
  IF lineind < ce
  THEN DeleteLine(m, ce, nend, linenum, ind, lineind - 2, strlen(m, lineind) + 3)
  ELSE StoreBody(m, ce, nend, linenum, ind,
                 get_potential_line_index(m, ce, linenum) - 2)

\* main.c:490-501, linenum == get_line_num(ind)
StoreNumbered(m, ce, nind, nend, ind0, linenum) ==
  IF linenum = 0 THEN Stored(m, ce, nind, "linenum", FALSE)
  ELSE StoreAt(m, ce, nend, linenum, skip_spaces(m, ind0 + AlnumRun(m, ind0, nend)),
               get_line_index(m, ce, linenum))

store_newline(m, ce, nind, nend, ind0) ==
  StoreNumbered(m, ce, nind, nend, ind0, get_line_num(m, ind0, nend))

(***************************************************************************)
(* Arithmetic of var_t.  The operands met here are small; the bitwise      *)
(* operators are those of two's complement, / and % truncate as in C.      *)
(***************************************************************************)
Abs(x) == IF x < 0 THEN -x ELSE x

CDiv(a, b) ==
  IF (a >= 0) = (b > 0) THEN Abs(a) \div Abs(b) ELSE -(Abs(a) \div Abs(b))

CRem(a, b) == a - b * CDiv(a, b)

RECURSIVE BitAnd(_, _)
BitAnd(a, b) ==
  IF a = 0 \/ b = 0 THEN 0
  ELSE IF a = -1 THEN b
  ELSE IF b = -1 THEN a
  ELSE (a % 2) * (b % 2) + 2 * BitAnd(a \div 2, b \div 2)

BitNot(a) == -a - 1

BitOr(a, b) == BitNot(BitAnd(BitNot(a), BitNot(b)))

BitXor(a, b) == BitAnd(BitOr(a, b), BitNot(BitAnd(a, b)))

(***************************************************************************)
(* Expression solving                                                      *)
(***************************************************************************)
Tok(t, p, v) == [type |-> t, precedence |-> p, value |-> v]

\* a token read from the workspace; behind its last slot lies other memory
RdTok(toks, i) == IF i \in DOMAIN toks THEN toks[i] ELSE Tok(ET_NONE, 0, 0)

OperatorType(c) ==
  IF c = 43 THEN ET_ADD
  ELSE IF c = 45 THEN ET_SUBTRACT
  ELSE IF c = 42 THEN ET_MULTIPLY
  ELSE IF c = 47 THEN ET_DIVIDE
  ELSE IF c = 37 THEN ET_REMAINDER
  ELSE IF c = 38 THEN ET_AND
  ELSE IF c = 124 THEN ET_OR
  ELSE IF c = 94 THEN ET_XOR
  ELSE IF c = 33 THEN ET_INVERT
  ELSE IF c = 40 THEN ET_SUBEXPR_OPEN
  ELSE IF c = 41 THEN ET_SUBEXPR_CLOSE
  ELSE ET_NONE

\* expr_tokenize(index, length), `stop` being index + length
RECURSIVE TokenizeFrom(_, _, _, _, _, _, _)
TokenizeFrom(m, nend, vars_, toks, count, index, stop) ==
  IF count = EXPR_MAX_TOKENS \/ index >= stop THEN [toks |-> toks, count |-> count]
  ELSE LET c == Rd(m, index)
       IN  IF isdigit(c)
             THEN LET lit == get_literal_number(m, index, nend)
                      \* while (isalnum(codemem[index])) index++
                      after == index + AlnumRun(m, index, CODE_MEMORY_SIZE + 2)
                  IN  IF lit.error THEN [toks |-> toks, count |-> EXPR_MAX_TOKENS]
                      ELSE TokenizeFrom(m, nend, vars_,
                                        [toks EXCEPT ![count] = Tok(ET_VALUE, 0, lit.value)],
                                        count + 1, after, stop)
           ELSE IF isalpha(c)
             THEN TokenizeFrom(m, nend, vars_,
                               [toks EXCEPT ![count] = Tok(ET_VALUE, 0, vars_[toupper(c) - 65])],
                               count + 1, index + 1, stop)
           ELSE IF isblank(c)
             THEN TokenizeFrom(m, nend, vars_, toks, count, index + 1, stop)
           ELSE IF OperatorType(c) # ET_NONE
             THEN TokenizeFrom(m, nend, vars_,
                               [toks EXCEPT ![count] = Tok(OperatorType(c), 0, 0)],
                               count + 1, index + 1, stop)
           ELSE [toks |-> toks, count |-> EXPR_MAX_TOKENS]

expr_tokenize(m, nend, vars_, toks, count, index, length) ==
  TokenizeFrom(m, nend, vars_, toks, count, index, index + length)

\* for (i = index; i < expr_token_count - length; i++) expr_tokens[i] = expr_tokens[i + length]
RECURSIVE EraseFrom(_, _, _, _)
EraseFrom(toks, count, length, i) ==
  IF i >= count - length THEN toks
  ELSE EraseFrom([toks EXCEPT ![i] = RdTok(toks, i + length)], count, length, i + 1)

expr_erase(toks, count, index, length) ==
  [toks |-> EraseFrom(toks, count, length, index), count |-> count - length]

\* the body of the loop of expr_reduce_unary at position i
UnaryStep(toks, count, i) ==
  LET here == RdTok(toks, i)
      op == RdTok(toks, i - 1).type
      keep == [err |-> FALSE, toks |-> toks, count |-> count]
      fail == [err |-> TRUE, toks |-> toks, count |-> count]
      done(v) == LET e == expr_erase([toks EXCEPT ![i] = [here EXCEPT !.value = v]],
                                     count, i - 1, 1)
                 IN  [err |-> FALSE, toks |-> e.toks, count |-> e.count]
  IN  IF here.type = ET_SUBEXPR_OPEN THEN keep
      ELSE IF i > 1 /\ RdTok(toks, i - 2).type = ET_VALUE THEN keep
      ELSE IF i > 1 /\ RdTok(toks, i - 2).type = ET_SUBEXPR_CLOSE THEN keep
      ELSE IF op = ET_ADD
        THEN (IF here.type # ET_VALUE THEN fail ELSE done(here.value))
      ELSE IF op = ET_SUBTRACT
        THEN (IF here.type # ET_VALUE THEN fail ELSE done(Neg32(here.value)))
      ELSE IF op = ET_INVERT
        THEN (IF here.type # ET_VALUE THEN fail ELSE done(BitNot(here.value)))
      ELSE keep

\* for (i = expr_token_count; i > 0; i--)
RECURSIVE UnaryLoop(_, _, _)
UnaryLoop(toks, count, i) ==
  IF i <= 0 THEN [err |-> FALSE, toks |-> toks, count |-> count]
  ELSE LET s == UnaryStep(toks, count, i)
       IN  IF s.err THEN s ELSE UnaryLoop(s.toks, s.count, i - 1)

\* a reduction of the leading unary operator only
expr_reduce_unary_Leading(toks, count) == UnaryStep(toks, count, 1)

expr_reduce_unary(toks, count) == UnaryLoop(toks, count, count)

BasePrecedence(type) ==
  IF type \in {ET_AND, ET_OR, ET_XOR} THEN 1
  ELSE IF type \in {ET_ADD, ET_SUBTRACT} THEN 2
  ELSE IF type \in {ET_MULTIPLY, ET_DIVIDE, ET_REMAINDER} THEN 3
  ELSE 0

\* int8_t base_precedence, uint8_t precedence
Int8(x) == ((x + 128) % 256) - 128

RECURSIVE PrecedenceFrom(_, _, _, _)
PrecedenceFrom(toks, count, i, base) ==
  IF i >= count THEN [err |-> base # 0, toks |-> toks]
  ELSE LET type == toks[i].type
           base1 == IF type = ET_SUBEXPR_OPEN THEN Int8(base + ET_SUBEXPR)
                    ELSE IF type = ET_SUBEXPR_CLOSE THEN Int8(base - ET_SUBEXPR)
                    ELSE base
           toks1 == IF BasePrecedence(type) > 0
                    THEN [toks EXCEPT ![i].precedence = (base + BasePrecedence(type)) % 256]
                    ELSE toks
       IN  IF base1 < 0 THEN [err |-> TRUE, toks |-> toks1]
           ELSE PrecedenceFrom(toks1, count, i + 1, base1)

expr_calc_precedence(toks, count) == PrecedenceFrom(toks, count, 0, 0)

RECURSIVE FilterFrom(_, _, _, _)
FilterFrom(toks, count, index, newindex) ==
  IF index >= count THEN [toks |-> toks, count |-> newindex]
  ELSE IF toks[index].type \notin {ET_SUBEXPR_OPEN, ET_SUBEXPR_CLOSE}
    THEN FilterFrom([toks EXCEPT ![newindex] = toks[index]], count, index + 1, newindex + 1)
  ELSE FilterFrom(toks, count, index + 1, newindex)

expr_filter_brackets(toks, count) == FilterFrom(toks, count, 0, 0)

expr_reduce_check(toks, count, index) ==
  \/ index = 0
  \/ index = count
  \/ RdTok(toks, index - 1).type # ET_VALUE
  \/ RdTok(toks, index + 1).type # ET_VALUE

\* the scan of expr_reduce for the most important operation: [prec, index]
RECURSIVE HighestFrom(_, _, _, _, _)
HighestFrom(toks, count, i, prec, index) ==
  IF i >= count THEN [prec |-> prec, index |-> index]
  ELSE IF toks[i].precedence > prec
    THEN HighestFrom(toks, count, i + 1, toks[i].precedence, i)
  ELSE HighestFrom(toks, count, i + 1, prec, index)

\* a scan that keeps the last of the most important operations
RECURSIVE HighestFrom_Last(_, _, _, _, _)
HighestFrom_Last(toks, count, i, prec, index) ==
  IF i >= count THEN [prec |-> prec, index |-> index]
  ELSE IF toks[i].precedence > 0 /\ toks[i].precedence >= prec
    THEN HighestFrom_Last(toks, count, i + 1, toks[i].precedence, i)
  ELSE HighestFrom_Last(toks, count, i + 1, prec, index)

FindHighest_Last(toks, count) == HighestFrom_Last(toks, count, 0, 0, 0)

FindHighest(toks, count) == HighestFrom(toks, count, 0, 0, 0)

BinaryTypes ==
  {ET_MULTIPLY, ET_DIVIDE, ET_REMAINDER, ET_ADD, ET_SUBTRACT, ET_AND, ET_OR, ET_XOR}

ApplyBinary(type, a, b) ==
  IF type = ET_MULTIPLY THEN a * b
  ELSE IF type = ET_DIVIDE THEN CDiv(a, b)
  ELSE IF type = ET_REMAINDER THEN CRem(a, b)
  ELSE IF type = ET_ADD THEN a + b
  ELSE IF type = ET_SUBTRACT THEN a - b
  ELSE IF type = ET_AND THEN BitAnd(a, b)
  ELSE IF type = ET_OR THEN BitOr(a, b)
  ELSE BitXor(a, b)

\* expr_reduce(): err, or crashed on a division by zero
expr_reduce(toks, count) ==
  LET h == FindHighest(toks, count)
      index == h.index
      type == toks[index].type
      a == RdTok(toks, index - 1).value
      b == RdTok(toks, index + 1).value
      fail == [err |-> TRUE, crashed |-> FALSE, toks |-> toks, count |-> count]
  IN  IF h.prec = 0 THEN fail
      ELSE IF type \notin BinaryTypes THEN fail
      ELSE IF expr_reduce_check(toks, count, index) THEN fail
      ELSE IF type \in {ET_DIVIDE, ET_REMAINDER} /\ b = 0
        THEN [err |-> FALSE, crashed |-> TRUE, toks |-> toks, count |-> count]
      ELSE LET e == expr_erase([toks EXCEPT ![index - 1].value = ApplyBinary(type, a, b)],
                               count, index, 2)
           IN  [err |-> FALSE, crashed |-> FALSE, toks |-> e.toks, count |-> e.count]

\* while (expr_token_count > 1) if (expr_reduce()) goto handle_expr_error
RECURSIVE ReduceLoop(_, _)
ReduceLoop(toks, count) ==
  IF count <= 1 THEN [err |-> FALSE, crashed |-> FALSE, toks |-> toks, count |-> count]
  ELSE LET r == expr_reduce(toks, count)
       IN  IF r.err \/ r.crashed THEN r ELSE ReduceLoop(r.toks, r.count)

\* what expr_solve leaves: value and error, and the workspace
Solved(v, e, c, toks, count) ==
  [value |-> v, error |-> e, crashed |-> c, toks |-> toks, count |-> count]

\* main.c:579-591, r the outcome of the reductions
SolveReduced(r) ==
  IF r.crashed THEN Solved(0, FALSE, TRUE, r.toks, r.count)
  ELSE IF r.err THEN Solved(0, TRUE, FALSE, r.toks, r.count)
  ELSE Solved(r.toks[0].value, FALSE, FALSE, r.toks, r.count)

\* main.c:579-581, f the tokens without brackets
SolveFiltered(f) == SolveReduced(ReduceLoop(f.toks, f.count))

\* main.c:567-570, p the tokens with their precedences
SolvePrecedence(p, count) ==
  IF p.err THEN Solved(0, TRUE, FALSE, p.toks, count)
  ELSE SolveFiltered(expr_filter_brackets(p.toks, count))

\* main.c:564-565, u the tokens after the unary reduction
SolveUnary(u) ==
  IF u.err THEN Solved(0, TRUE, FALSE, u.toks, u.count)
  ELSE SolvePrecedence(expr_calc_precedence(u.toks, u.count), u.count)

\* main.c:559-562, t the tokens of the span
SolveTokens(t) ==
  IF t.count = EXPR_MAX_TOKENS THEN Solved(0, TRUE, FALSE, t.toks, t.count)
  ELSE SolveUnary(expr_reduce_unary(t.toks, t.count))

\* expr_solve(index, length), on the workspace toks0 as the last solve left it
expr_solve(m, nend, vars_, toks0, index, length) ==
  SolveTokens(expr_tokenize(m, nend, vars_, toks0, 0, index, length))

(***************************************************************************)
(* Statements.  A handler yields the directive for the run loop (dir), the *)
(* variables and the workspace it leaves, and the error it printed.  A     *)
(* statement that makes execute_command call handle_run or handle_new, or  *)
(* that reaches the GETCHAR loop of handle_input, yields that call; the    *)
(* actions below carry it out.  The dispatcher knows the statements that   *)
(* the typed lines of this model use; PRINT, CHAR, CLEAR, SAVE and LOAD    *)
(* are not among them.                                                     *)
(***************************************************************************)
kwd_end == T(<<"E", "N", "D">>)
kwd_goto == T(<<"G", "O", "T", "O">>)
kwd_if == T(<<"I", "F">>)
kwd_input == T(<<"I", "N", "P", "U", "T">>)
kwd_let == T(<<"L", "E", "T">>)
kwd_list == T(<<"L", "I", "S", "T">>)
kwd_memory == T(<<"M", "E", "M", "O", "R", "Y">>)
kwd_new == T(<<"N", "E", "W">>)
kwd_rem == T(<<"R", "E", "M">>)
kwd_run == T(<<"R", "U", "N">>)
kwd_then == T(<<"T", "H", "E", "N">>)

command_compare(command, m, index) ==
  /\ \A i \in 1..Len(command) : command[i] = toupper(Rd(m, index + i - 1))
  /\ Rd(m, index + Len(command)) \in {0, 32}

Result(dir, vars_, toks, count, message, crashed) ==
  [dir |-> dir, vars |-> vars_, toks |-> toks, count |-> count, msg |-> message,
   crashed |-> crashed, call |-> "none", arg |-> 0]

\* execute_command is about to call handle_run ("run") or handle_new ("new"), or
\* handle_input is about to read the response for variable arg ("input")
Call(kind, arg, vars_, toks, count) ==
  [dir |-> 0, vars |-> vars_, toks |-> toks, count |-> count, msg |-> "none",
   crashed |-> FALSE, call |-> kind, arg |-> arg]

\* handle_let storing a value although expr_solve failed
LetAssign_OnError(vars_, variable_, s) ==
  IF s.crashed THEN Result(MAX_LINENUM, vars_, s.toks, s.count, "none", TRUE)
  ELSE IF s.error
    THEN Result(MAX_LINENUM, [vars_ EXCEPT ![variable_] = 0], s.toks, s.count,
                "expression", FALSE)
  ELSE Result(0, [vars_ EXCEPT ![variable_] = s.value], s.toks, s.count, "none", FALSE)

\* the assignment of handle_let, s the outcome of expr_solve
LetAssign(vars_, variable_, s) ==
  IF s.crashed THEN Result(MAX_LINENUM, vars_, s.toks, s.count, "none", TRUE)
  ELSE IF s.error THEN Result(MAX_LINENUM, vars_, s.toks, s.count, "expression", FALSE)
  ELSE Result(0, [vars_ EXCEPT ![variable_] = s.value], s.toks, s.count, "none", FALSE)

\* handle_let past the target, equal the index of the sign
LetFrom(m, nend, vars_, toks, count, target, equal) ==
  IF ~isalpha(Rd(m, target))
    THEN Result(MAX_LINENUM, vars_, toks, count, "let_target", FALSE)
  ELSE IF Rd(m, equal) # 61
    THEN Result(MAX_LINENUM, vars_, toks, count, "let_sanity", FALSE)
  ELSE LetAssign(vars_, toupper(Rd(m, target)) - 65,
                 expr_solve(m, nend, vars_, toks, equal + 1, strlen(m, equal + 1)))

LetTarget(m, nend, vars_, toks, count, target) ==
  LetFrom(m, nend, vars_, toks, count, target, skip_spaces(m, target + 1))

handle_let(m, nend, vars_, toks, count, index) ==
  LetTarget(m, nend, vars_, toks, count, skip_spaces(m, index))

\* handle_goto past the literal: const line_t linenum = get_literal_number(...)
GotoTarget(lit, vars_, toks, count) ==
  IF lit.value % 65536 = 0 \/ lit.value % 65536 >= MAX_LINENUM \/ lit.error
    THEN Result(MAX_LINENUM, vars_, toks, count, "goto_target", FALSE)
  ELSE Result(lit.value % 65536, vars_, toks, count, "none", FALSE)

handle_goto(m, nend, vars_, toks, count, index) ==
  GotoTarget(get_literal_number(m, skip_spaces(m, index + Len(kwd_goto)), nend),
             vars_, toks, count)

\* handle_input up to its GETCHAR loop
handle_input(m, vars_, toks, count, target) ==
  IF Rd(m, target) = 0 \/ ~isalpha(Rd(m, target)) \/ Rd(m, target + 1) # 0
    THEN Result(MAX_LINENUM, vars_, toks, count, "input_target", FALSE)
  ELSE Call("input", toupper(Rd(m, target)) - 65, vars_, toks, count)

RECURSIVE execute_command(_, _, _, _, _, _)

\* handle_if: the length of the first expression, as the index where it ends
RECURSIVE CompareAt(_, _)
CompareAt(m, i) == IF Rd(m, i) \in {60, 62, 61, 0} THEN i ELSE CompareAt(m, i + 1)

\* handle_if: the length of the second expression, as the index where it ends
RECURSIVE ThenAt(_, _)
ThenAt(m, i) ==
  IF Rd(m, i) = 0 \/ command_compare(kwd_then, m, i) THEN i ELSE ThenAt(m, i + 1)

\* handle_if from the second expression solved (r); op the index of the
\* comparison, then_ that of THEN
IfRight(m, nend, vars_, op, left, then_, r) ==
  IF r.crashed THEN Result(MAX_LINENUM, vars_, r.toks, r.count, "none", TRUE)
  ELSE IF r.error THEN Result(MAX_LINENUM, vars_, r.toks, r.count, "expression", FALSE)
  ELSE IF (IF Rd(m, op) = 60 /\ Rd(m, op + 1) = 62 THEN left # r.value
           ELSE IF Rd(m, op) = 60 THEN left < r.value
           ELSE IF Rd(m, op) = 62 THEN left > r.value
           ELSE left = r.value)
    THEN execute_command(m, nend, vars_, r.toks, r.count,
                         skip_spaces(m, then_ + Len(kwd_then)))
  ELSE Result(0, vars_, r.toks, r.count, "none", FALSE)

\* handle_if from the first expression solved (l); right the index of the second
IfLeft(m, nend, vars_, op, l, right, then_) ==
  IF l.crashed THEN Result(MAX_LINENUM, vars_, l.toks, l.count, "none", TRUE)
  ELSE IF l.error THEN Result(MAX_LINENUM, vars_, l.toks, l.count, "expression", FALSE)
  ELSE IF Rd(m, then_) = 0
    THEN Result(MAX_LINENUM, vars_, l.toks, l.count, "if_then", FALSE)
  ELSE IfRight(m, nend, vars_, op, l.value, then_,
               expr_solve(m, nend, vars_, l.toks, right, then_ - right))

IfCompare(m, nend, vars_, toks, count, index, op, right) ==
  IF Rd(m, op) = 0 THEN Result(MAX_LINENUM, vars_, toks, count, "if_exprs", FALSE)
  ELSE IfLeft(m, nend, vars_, op, expr_solve(m, nend, vars_, toks, index, op - index),
              right, ThenAt(m, right))

IfFrom(m, nend, vars_, toks, count, index, op) ==
  IfCompare(m, nend, vars_, toks, count, index, op,
            IF Rd(m, op) = 60 /\ Rd(m, op + 1) = 62 THEN op + 2 ELSE op + 1)

handle_if(m, nend, vars_, toks, count, index) ==
  IfFrom(m, nend, vars_, toks, count, skip_spaces(m, index + Len(kwd_if)),
         CompareAt(m, skip_spaces(m, index + Len(kwd_if))))

\* the commands of execute_command that are refused while current_line is not 0
ModeRestricted(m, index) ==
  \/ command_compare(kwd_run, m, index)
  \/ command_compare(kwd_list, m, index)
  \/ command_compare(kwd_new, m, index)
  \/ command_compare(kwd_memory, m, index)

execute_command(m, nend, vars_, toks, count, index) ==
  IF command_compare(kwd_let, m, index)
       \/ (isalpha(Rd(m, index)) /\ Rd(m, index + 1) \in {32, 61})
    THEN handle_let(m, nend, vars_, toks, count,
                    IF command_compare(kwd_let, m, index)
                    THEN index + Len(kwd_list) ELSE index)
  ELSE IF command_compare(kwd_goto, m, index)
    THEN handle_goto(m, nend, vars_, toks, count, index)
  ELSE IF command_compare(kwd_if, m, index)
    THEN handle_if(m, nend, vars_, toks, count, index)
  ELSE IF command_compare(kwd_input, m, index)
    \* handle_input(index); the value it returns is dropped
    THEN [handle_input(m, vars_, toks, count, skip_spaces(m, index + Len(kwd_input)))
            EXCEPT !.dir = 0]
  ELSE IF command_compare(kwd_rem, m, index)
    THEN Result(0, vars_, toks, count, "none", FALSE)
  ELSE IF command_compare(kwd_end, m, index)
    THEN Result(MAX_LINENUM, vars_, toks, count, "none", FALSE)
  ELSE IF ModeRestricted(m, index)
    \* print_error(str_err_run_mode, index); the value it returns is dropped
    THEN (IF current_line # 0 THEN Result(0, vars_, toks, count, "run_mode", FALSE)
          ELSE IF command_compare(kwd_run, m, index) THEN Call("run", 0, vars_, toks, count)
          ELSE IF command_compare(kwd_new, m, index) THEN Call("new", 0, vars_, toks, count)
          ELSE Result(0, vars_, toks, count, "none", FALSE))
  ELSE Result(MAX_LINENUM, vars_, toks, count, "unknown", FALSE)

\* LIST: the line numbers and bodies it prints, in order
RECURSIVE ListFrom(_, _, _)
ListFrom(m, ce, index) ==
  IF index >= ce THEN <<>>
  ELSE LET linelen == strlen(m, index + 2)
       IN  <<[linenum |-> load_line_t(m, index),
              body |-> [i \in 1..linelen |-> Rd(m, index + 1 + i)]]>>
           \o ListFrom(m, ce, index + linelen + 3)

handle_list(m, ce) == ListFrom(m, ce, 0)

(***************************************************************************)
(* The shell                                                               *)
(***************************************************************************)
\* what execute_newline leaves, or the call its statement is about to make
Executed(mem, ce, nind, nend, vars_, toks, count, message, crashed) ==
  [mem |-> mem, ce |-> ce, nind |-> nind, nend |-> nend, vars |-> vars_, toks |-> toks,
   count |-> count, msg |-> message, crashed |-> crashed, call |-> "none", arg |-> 0]

\* after store_newline(index): the newline buffer is cleared
AfterStore(st, vars_, toks, count) ==
  Executed(st.mem, st.ce, st.ce, st.ce, vars_, toks, count, st.msg, st.crashed)

\* after execute_command(newline_ind) on the terminated line: the newline
\* buffer is cleared, unless the statement is still to make its call
AfterCommand(m, ce, nind, nend, ex) ==
  IF ex.call = "none"
    THEN Executed(m, ce, ce, ce, ex.vars, ex.toks, ex.count, ex.msg, ex.crashed)
  ELSE [Executed(m, ce, nind, nend, ex.vars, ex.toks, ex.count, ex.msg, ex.crashed)
          EXCEPT !.call = ex.call, !.arg = ex.arg]

\* codemem[newline_end] = '\0'; execute_command(newline_ind)
Dispatch(m, ce, nind, nend, vars_, toks, count) ==
  AfterCommand(m, ce, nind, nend, execute_command(m, nend, vars_, toks, count, nind))

ExecuteAt(m, ce, nind, nend, vars_, toks, count, index) ==
  IF index = nend
    THEN Executed(m, ce, nind, nend, vars_, toks, count, "none", FALSE)
  ELSE IF isdigit(Rd(m, index))
    THEN AfterStore(store_newline(m, ce, nind, nend, index), vars_, toks, count)
  ELSE Dispatch(Wr(m, nend, 0), ce, nind, nend, vars_, toks, count)

\* execute_newline() on the buffer m (extended by the byte behind it)
execute_newline(m, ce, nind, nend, vars_, toks, count) ==
  ExecuteAt(m, ce, nind, nend, vars_, toks, count, skip_spaces(m, nind))

\* handle_run (main.c:1620-1648) once execute_command(index) has returned next to
\* the innermost run loop of stack; with no run in progress the caller is
\* execute_newline.  Yields the run loops that go on, current_line, and the
\* number shown as "Line n not found." (0 if none).
RECURSIVE Resume(_, _, _, _, _)
Resume(stack, next, m, ce, line) ==
  IF stack = <<>> THEN [stack |-> <<>>, line |-> line, missing |-> 0]
  ELSE IF next = MAX_LINENUM
    THEN Resume(SubSeq(stack, 1, Len(stack) - 1), 0, m, ce, 0)
  ELSE IF next = 0
    THEN (IF stack[Len(stack)] + strlen(m, stack[Len(stack)]) + 3 >= ce
            THEN Resume(SubSeq(stack, 1, Len(stack) - 1), 0, m, ce, 0)
          ELSE [stack |-> [stack EXCEPT ![Len(stack)] = @ + strlen(m, @) + 3],
                line |-> 0, missing |-> 0])
  ELSE IF get_line_index(m, ce, next) = ce
    THEN [Resume(SubSeq(stack, 1, Len(stack) - 1), 0, m, ce, 0) EXCEPT !.missing = next]
  ELSE [stack |-> [stack EXCEPT ![Len(stack)] = get_line_index(m, ce, next)],
        line |-> next, missing |-> 0]

\* the bytes that may follow the buffer in memory
OobBytes == {0, 32, 49, 65}

ZeroTokens == [i \in 0..(EXPR_MAX_TOKENS - 1) |-> Tok(ET_NONE, 0, 0)]

\* main.c:1724-1731, with a buffer of the given size, and the characters
\* that wait on the standard input
Start(size, vars0, stream) ==
  /\ codemem = [i \in 0..(size - 1) |-> 0]
  /\ codemem_end = 0
  /\ newline_ind = 0
  /\ newline_end = 0
  /\ expr_tokens = ZeroTokens
  /\ expr_token_count = 0
  /\ variables = vars0
  /\ current_line = 0
  /\ pc = "read"
  /\ input = stream
  /\ typed = <<>>
  /\ lines = 0
  /\ msg = "none"
  /\ status = "running"
  /\ run_stack = <<>>
  /\ nextline = 0
  /\ variable = 0
  /\ msgline = 0

Init == Start(MemSize, [i \in 0..25 |-> 0], <<>>)

\* handle_shell(): GETCHAR delivers the next character; at the start of a line
\* the user settles on one of the lines of Keyboard
HandleShell(Keyboard) ==
  /\ status = "running"
  /\ pc = "read"
  /\ \E stream \in (IF input = <<>> THEN {l \o <<NEWLINE>> : l \in Keyboard} ELSE {input}) :
       LET chr == Head(stream)
       IN  /\ input' = Tail(stream)
           /\ typed' = IF input = <<>> THEN <<chr>> ELSE Append(typed, chr)
           /\ lines' = IF input = <<>> THEN lines + 1 ELSE lines
           /\ IF chr = BACKSPACE
                THEN /\ newline_end' = IF newline_end > newline_ind
                                       THEN newline_end - 1 ELSE newline_end
                     /\ UNCHANGED <<codemem, pc>>
              ELSE IF chr = NEWLINE
                THEN /\ pc' = "execute"
                     /\ UNCHANGED <<codemem, newline_end>>
              ELSE IF newline_end < CODE_MEMORY_SIZE
                THEN /\ codemem' = [codemem EXCEPT ![newline_end] = chr]
                     /\ newline_end' = newline_end + 1
                     /\ UNCHANGED pc
              ELSE UNCHANGED <<codemem, newline_end, pc>>
  /\ UNCHANGED <<codemem_end, newline_ind, expr_tokens, expr_token_count, variables,
                 current_line, msg, status, run_stack, nextline, variable, msgline>>

\* execute_command has returned next to its caller (Resume); message is the
\* error that the statement printed, under the current_line it was run with
Return(stack, next, m, ce, nind, nend, message) ==
  \E r \in {Resume(stack, next, m, ce, current_line)} :
    /\ run_stack' = r.stack
    /\ current_line' = r.line
    /\ nextline' = IF stack = <<>> THEN nextline ELSE next
    /\ pc' = IF r.stack = <<>> THEN "read" ELSE "run"
    \* back in execute_newline the newline buffer is cleared
    /\ newline_ind' = IF r.stack = <<>> THEN ce ELSE nind
    /\ newline_end' = IF r.stack = <<>> THEN ce ELSE nend
    /\ msg' = IF r.missing # 0 THEN "line_not_found" ELSE message
    /\ msgline' = IF r.missing # 0 THEN r.missing
                  ELSE IF message = "none" THEN 0 ELSE current_line

\* execute_command calls handle_run or handle_new, or handle_input waits for
\* the response
Enter(kind, arg, stack, m, ce, nind, nend) ==
  IF kind = "run" /\ ce = 0
    \* handle_run: "No code to run", return
    THEN /\ Return(stack, 0, m, ce, nind, nend, "no_code")
         /\ UNCHANGED variable
  ELSE IF kind = "run"
    THEN /\ Len(stack) < MaxDepth
         /\ run_stack' = Append(stack, 2)
         /\ current_line' = load_line_t(m, 0)
         /\ pc' = "run"
         /\ newline_ind' = nind
         /\ newline_end' = nend
         /\ msg' = "none"
         /\ msgline' = 0
         /\ UNCHANGED <<nextline, variable>>
  ELSE /\ pc' = kind
       /\ variable' = arg
       /\ newline_ind' = nind
       /\ newline_end' = nend
       /\ msg' = "none"
       /\ msgline' = 0
       /\ UNCHANGED <<run_stack, current_line, nextline>>

\* main(): if (execute) execute_newline()
ExecuteNewline ==
  /\ status = "running"
  /\ pc = "execute"
  /\ \E oob \in OobBytes :
       \E r \in {execute_newline(Extend(codemem, oob), codemem_end, newline_ind,
                                newline_end, variables, expr_tokens, expr_token_count)} :
           /\ codemem' = Restrict(r.mem)
           /\ codemem_end' = r.ce
           /\ variables' = r.vars
           /\ expr_tokens' = r.toks
           /\ expr_token_count' = r.count
           /\ status' = IF r.crashed THEN "crashed" ELSE "running"
           /\ IF r.call = "none"
                THEN /\ newline_ind' = r.nind
                     /\ newline_end' = r.nend
                     /\ msg' = r.msg
                     /\ msgline' = 0
                     /\ pc' = "read"
                     /\ UNCHANGED <<current_line, run_stack, nextline, variable>>
              ELSE Enter(r.call, r.arg, <<>>, r.mem, r.ce, r.nind, r.nend)
  /\ UNCHANGED <<input, typed, lines>>

\* handle_run: nextline = execute_command(index), and what the loop does with it
RunStep ==
  /\ status = "running"
  /\ pc = "run"
  /\ \E oob \in OobBytes :
       \E ex \in {execute_command(Extend(codemem, oob), newline_end, variables, expr_tokens,
                                  expr_token_count, run_stack[Len(run_stack)])} :
           /\ variables' = ex.vars
           /\ expr_tokens' = ex.toks
           /\ expr_token_count' = ex.count
           /\ status' = IF ex.crashed THEN "crashed" ELSE "running"
           /\ IF ex.call = "none"
                THEN /\ Return(run_stack, ex.dir, Extend(codemem, oob), codemem_end,
                               newline_ind, newline_end, ex.msg)
                     /\ UNCHANGED variable
              ELSE Enter(ex.call, ex.arg, run_stack, Extend(codemem, oob), codemem_end,
                         newline_ind, newline_end)
  /\ UNCHANGED <<codemem, codemem_end, input, typed, lines>>

\* handle_input: the GETCHAR loop on the characters of stream, which holds a
\* NEWLINE; yields the buffer, expr_length and the characters left
RECURSIVE ReadResponse(_, _, _, _)
ReadResponse(m, nend, expr_length, stream) ==
  IF Head(stream) = BACKSPACE
    THEN ReadResponse(m, nend, IF expr_length > 0 THEN expr_length - 1 ELSE 0, Tail(stream))
  ELSE IF Head(stream) = NEWLINE
    THEN [mem |-> Wr(m, nend + expr_length, 0), length |-> expr_length, rest |-> Tail(stream)]
  ELSE IF nend + expr_length < CODE_MEMORY_SIZE
    THEN ReadResponse(Wr(m, nend + expr_length, Head(stream)), nend, expr_length + 1,
                      Tail(stream))
  ELSE ReadResponse(m, nend, expr_length, Tail(stream))

\* handle_input from its GETCHAR loop on, and the return to the caller of
\* execute_command, which drops what handle_input returns
HandleInput ==
  /\ status = "running"
  /\ pc = "input"
  /\ \E i \in 1..Len(input) : input[i] = NEWLINE
  /\ \E oob \in OobBytes :
       \E rd \in {ReadResponse(Extend(codemem, oob), newline_end, 0, input)} :
         \E s \in {expr_solve(rd.mem, newline_end, variables, expr_tokens, newline_end,
                              rd.length)} :
           /\ codemem' = Restrict(rd.mem)
           /\ input' = rd.rest
           /\ typed' = typed \o SubSeq(input, 1, Len(input) - Len(rd.rest))
           /\ variables' = IF s.error \/ s.crashed THEN variables
                           ELSE [variables EXCEPT ![variable] = s.value]
           /\ expr_tokens' = s.toks
           /\ expr_token_count' = s.count
           /\ status' = IF s.crashed THEN "crashed" ELSE "running"
           /\ Return(run_stack, 0, rd.mem, codemem_end, newline_ind, newline_end,
                     IF s.error THEN "expression" ELSE "none")
  /\ UNCHANGED <<codemem_end, lines, variable>>

\* handle_new: GETCHAR delivers the answer, and the return to the caller of
\* execute_command
HandleNew ==
  /\ status = "running"
  /\ pc = "new"
  /\ input # <<>>
  /\ input' = Tail(input)
  /\ typed' = Append(typed, Head(input))
  /\ IF toupper(Head(input)) = 89
       THEN /\ codemem' = [i \in DOMAIN codemem |-> 0]
            /\ codemem_end' = 0
            /\ Return(run_stack, 0, [i \in DOMAIN codemem |-> 0], 0, 0, 0, "none")
       ELSE /\ UNCHANGED <<codemem, codemem_end>>
            /\ Return(run_stack, 0, codemem, codemem_end, newline_ind, newline_end, "none")
  /\ UNCHANGED <<expr_tokens, expr_token_count, variables, lines, status, variable>>

(***************************************************************************)
(* What is typed.  Spec: editing lines, up to MaxLines of them.            *)
(***************************************************************************)
StoreLines ==
  { T(<<"1", " ", "A">>),
    T(<<"2", " ", "B">>),
    T(<<"3", " ", "C">>),
    T(<<"2">>),
    T(<<"2", " ">>),
    T(<<"3", " ", "A", "B", "C">>),
    T(<<"2", " ", "A", "B", "B", "B", "A">>),
    T(<<"1", " ", "A", "B", "C", "D", "E", "F">>),
    T(<<"3", " ", "C">>) \o <<BACKSPACE, BACKSPACE>>,
    T(<<" ", "2", " ", "B", " ">>),
    T(<<"1", "A">>),
    T(<<"1", "2">>),
    T(<<"1", " ", "A", "B">>),
    T(<<"4", " ", "A", "B", "C", "D", "E", "F", "G", "H">>),
    <<>> }

Next ==
  \/ HandleShell(IF lines < MaxLines THEN StoreLines ELSE {})
  \/ ExecuteNewline

Spec == Init /\ [][Next]_vars

(***************************************************************************)
(* SpecExpr: one line that leaves a used workspace behind (or REM, which   *)
(* leaves it as it was), then one assignment A=<expression>.               *)
(***************************************************************************)
Digits == {<<Code["0"] + v>> : v \in 1..MaxVal}

BinaryOps == {T(<<"+">>), T(<<"-">>), T(<<"*">>), T(<<"/">>), T(<<"%">>),
              T(<<"&">>), T(<<"|">>), T(<<"^">>)}

UnaryOps == {T(<<"+">>), T(<<"-">>), T(<<"!">>)}

DeepOps == {T(<<"-">>), T(<<"*">>), T(<<"/">>), T(<<"|">>)}

LP == T(<<"(">>)
RP == T(<<")">>)
SP == T(<<" ">>)

WellFormedTexts ==
  Digits
  \cup {a \o o \o b : a \in Digits \cup {T(<<"B">>)}, o \in BinaryOps, b \in Digits \cup {T(<<"B">>)}}
  \cup {a \o o \o b \o q \o c : a \in Digits, o \in BinaryOps, b \in Digits,
                                q \in BinaryOps, c \in Digits}
  \cup {LP \o a \o o \o b \o RP \o q \o c : a \in Digits, o \in BinaryOps, b \in Digits,
                                            q \in BinaryOps, c \in Digits}
  \cup {a \o o \o LP \o b \o q \o c \o RP : a \in Digits, o \in BinaryOps, b \in Digits,
                                            q \in BinaryOps, c \in Digits}
  \cup {LP \o T(<<"3">>) \o o \o T(<<"1">>) \o RP \o q \o LP \o T(<<"2">>) \o r \o T(<<"1">>) \o RP :
          o \in DeepOps, q \in DeepOps, r \in DeepOps}
  \cup {T(<<"3">>) \o o \o LP \o LP \o T(<<"2">>) \o q \o T(<<"1">>) \o RP \o r \o T(<<"2">>) \o RP :
          o \in DeepOps, q \in DeepOps, r \in DeepOps}
  \cup {SP \o a \o SP \o o \o SP \o SP \o T(<<"2">>) \o SP : a \in Digits, o \in BinaryOps}

ChainedUnaryTexts ==
  {u \o v \o d : u \in UnaryOps, v \in UnaryOps, d \in Digits}
  \cup {u \o v \o w \o d : u \in UnaryOps, v \in UnaryOps, w \in UnaryOps, d \in Digits}
  \cup {T(<<"1">>) \o o \o u \o v \o d : o \in {T(<<"-">>), T(<<"*">>)}, u \in UnaryOps,
                                         v \in UnaryOps, d \in Digits}

OtherTexts ==
  { <<>>, T(<<"3", "-">>), T(<<"-">>), T(<<"2", "*", "(">>), T(<<"-", "(", "2", ")">>),
    T(<<"-", "2">>), T(<<"2", "*", "-", "3">>), T(<<"(", "2">>), T(<<"2", ")">>),
    T(<<"2", "/", "(", "1", "-", "1", ")">>), T(<<"2", " ", "3">>) }

ExprLines == {T(<<"A", "=">>) \o e : e \in WellFormedTexts \cup ChainedUnaryTexts \cup OtherTexts}

PriorLines ==
  { T(<<"R", "E", "M">>),
    T(<<"B", "=", "(", "1", "+", "2", ")", "*", "(", "3", ")">>),
    T(<<"L", "E", "T", " ", "B", " ", "=", " ", "5", "-", "(", "2", ")">>) }

NextExpr ==
  \/ HandleShell(IF lines = 0 THEN PriorLines ELSE IF lines = 1 THEN ExprLines ELSE {})
  \/ ExecuteNewline

SpecExpr == Init /\ [][NextExpr]_vars

(***************************************************************************)
(* SpecPrint: variable A holds any value (every int32 value is the value   *)
(* of some expression); the text that PRINT A shows, as print_signed makes *)
(* it, is typed back as the expression of B=<text>.                        *)
(***************************************************************************)
Int32Samples ==
  LET Magnitudes == {2^k : k \in 0..30} \cup {10^k : k \in 0..9}
                    \cup {214748364, 214748365, 1073741823, 1234567890, 2147483646}
  IN  {0, INT32_MIN, 2147483647}
      \cup {s * (p + d) : s \in {-1, 1}, p \in Magnitudes, d \in {-1, 0, 1}}

InitPrint ==
  \E n \in Int32Samples : Start(MemSize, [i \in 0..25 |-> IF i = 0 THEN n ELSE 0], <<>>)

PrintedLines == {T(<<"B", "=">>) \o print_signed(variables[0])}

NextPrint ==
  \/ HandleShell(IF lines = 0 THEN PrintedLines ELSE {})
  \/ ExecuteNewline

SpecPrint == InitPrint /\ [][NextPrint]_vars

(***************************************************************************)
(* SpecRun: a session at the terminal.  The standard input holds the lines *)
(* of one of the Scripts: program lines, statements for the shell, and the *)
(* responses that INPUT and NEW ask for.                                   *)
(***************************************************************************)
\* the lines ls as they arrive on the standard input
RECURSIVE Typed(_)
Typed(ls) == IF ls = <<>> THEN <<>> ELSE Head(ls) \o <<NEWLINE>> \o Typed(Tail(ls))

Scripts ==
  { Typed(<<T(<<"1", " ", "L", "I", "S", "T">>), T(<<"2", " ", "A", "=", "1">>), T(<<"R", "U", "N">>)>>),
    Typed(<<T(<<"1", " ", "R", "U", "N">>), T(<<"2", " ", "A", "=", "1">>), T(<<"R", "U", "N">>)>>),
    Typed(<<T(<<"1", " ", "N", "E", "W">>), T(<<"2", " ", "A", "=", "1">>), T(<<"R", "U", "N">>)>>),
    Typed(<<T(<<"1", " ", "M", "E", "M", "O", "R", "Y">>), T(<<"2", " ", "A", "=", "1">>), T(<<"R", "U", "N">>)>>),
    Typed(<<T(<<"1", " ", "I", "N", "P", "U", "T">>), T(<<"2", " ", "A", "=", "1">>), T(<<"R", "U", "N">>)>>),
    Typed(<<T(<<"1", " ", "I", "N", "P", "U", "T", " ", "5">>), T(<<"2", " ", "A", "=", "1">>), T(<<"R", "U", "N">>)>>),
    Typed(<<T(<<"1", " ", "I", "N", "P", "U", "T", " ", "A">>), T(<<"2", " ", "B", "=", "A">>), T(<<"R", "U", "N">>), T(<<"7">>)>>),
    Typed(<<T(<<"1", " ", "I", "N", "P", "U", "T", " ", "A">>), T(<<"2", " ", "B", "=", "A">>), T(<<"R", "U", "N">>), T(<<"1", "+">>)>>),
    Typed(<<T(<<"1", " ", "I", "N", "P", "U", "T", " ", "A">>), T(<<"2", " ", "B", "=", "A">>), T(<<"R", "U", "N">>), T(<<"0", "x", "1", "0">>)>>),
    Typed(<<T(<<"1", " ", "R", "E", "M">>), T(<<"2", " ", "N", "E", "W">>), T(<<"3", " ", "A", "=", "1">>), T(<<"R", "U", "N">>), T(<<"Y">>)>>),
    Typed(<<T(<<"1", " ", "R", "E", "M">>), T(<<"2", " ", "N", "E", "W">>), T(<<"3", " ", "A", "=", "1">>), T(<<"R", "U", "N">>), T(<<"n">>)>>),
    Typed(<<T(<<"1", " ", "A", "=", "1", "-", "A">>), T(<<"2", " ", "R", "U", "N">>), T(<<"R", "U", "N">>)>>),
    Typed(<<T(<<"1", " ", "R", "E", "M">>), T(<<"2", " ", "L", "I", "S", "T">>), T(<<"3", " ", "A", "=", "1">>), T(<<"R", "U", "N">>)>>),
    Typed(<<T(<<"1", " ", "R", "E", "M">>), T(<<"2", " ", "F", "O", "O">>), T(<<"R", "U", "N">>)>>),
    Typed(<<T(<<"1", " ", "F", "O", "O">>), T(<<"2", " ", "A", "=", "1">>), T(<<"R", "U", "N">>)>>),
    Typed(<<T(<<"5", " ", "G", "O", "T", "O", " ", "7">>), T(<<"6", " ", "A", "=", "1">>), T(<<"7", " ", "F", "O", "O">>), T(<<"R", "U", "N">>)>>),
    Typed(<<T(<<"1", " ", "A", "=">>), T(<<"R", "U", "N">>)>>),
    Typed(<<T(<<"1", " ", "R", "E", "M">>), T(<<"2", " ", "A", "=", "1", "+">>), T(<<"3", " ", "B", "=", "1">>), T(<<"R", "U", "N">>)>>),
    Typed(<<T(<<"1", " ", "A", "=", "1", "/", "0">>), T(<<"2", " ", "B", "=", "1">>), T(<<"R", "U", "N">>)>>),
    Typed(<<T(<<"1", " ", "G", "O", "T", "O", " ", "9">>), T(<<"R", "U", "N">>)>>),
    Typed(<<T(<<"1", " ", "G", "O", "T", "O", " ", "9">>), T(<<"R", "U", "N", " ", "=", "5">>)>>),
    Typed(<<T(<<"1", " ", "G", "O", "T", "O", " ", "3">>), T(<<"2", " ", "A", "=", "1">>), T(<<"3", " ", "B", "=", "1">>), T(<<"R", "U", "N">>)>>),
    Typed(<<T(<<"3", " ", "E", "N", "D">>), T(<<"1", " ", "G", "O", "T", "O", " ", "2">>), T(<<"R", "U", "N">>)>>),
    Typed(<<T(<<"1", " ", "G", "O", "T", "O", " ", "6", "5", "5", "3", "7">>), T(<<"R", "U", "N">>)>>),
    Typed(<<T(<<"1", " ", "G", "O", "T", "O", " ", "0">>), T(<<"2", " ", "A", "=", "1">>), T(<<"R", "U", "N">>)>>),
    Typed(<<T(<<"1", " ", "G", "O", "T", "O", " ", "1", "0", "0", "0", "0">>), T(<<"R", "U", "N">>)>>),
    Typed(<<T(<<"1", " ", "G", "O", "T", "O", " ", "6", "5", "5", "3", "6">>), T(<<"R", "U", "N">>)>>),
    Typed(<<T(<<"1", " ", "G", "O", "T", "O">>), T(<<"R", "U", "N">>)>>),
    Typed(<<T(<<"1", " ", "A", "=", "1", "-", "A">>), T(<<"2", " ", "I", "F", " ", "A", "=", "1", " ", "T", "H", "E", "N", " ", "G", "O", "T", "O", " ", "6", "5", "5", "3", "7">>), T(<<"R", "U", "N">>)>>),
    Typed(<<T(<<"1", " ", "G", "O", "T", "O", " ", "7", "5", "5", "3", "7">>), T(<<"R", "U", "N">>)>>),
    Typed(<<T(<<"1", " ", "A", "=", "1", "-", "A">>), T(<<"2", " ", "I", "F", " ", "A", "=", "1", " ", "T", "H", "E", "N", " ", "G", "O", "T", "O", " ", "1">>), T(<<"3", " ", "B", "=", "A", "+", "2">>), T(<<"R", "U", "N">>)>>),
    Typed(<<T(<<"G", "O", "T", "O", " ", "6", "5", "5", "3", "7">>)>>),
    Typed(<<T(<<"G", "O", "T", "O", " ", "5">>)>>),
    Typed(<<T(<<"1", " ", "I", "F", " ", "A", "<", "1", " ", "T", "H", "E", "N", " ", "G", "O", "T", "O", " ", "3">>), T(<<"2", " ", "A", "=", "5">>), T(<<"3", " ", "E", "N", "D">>), T(<<"R", "U", "N">>)>>),
    Typed(<<T(<<"1", " ", "A", "=", "1", "-", "A">>), T(<<"I", "F", " ", "1", "=", "1", " ", "T", "H", "E", "N", " ", "R", "U", "N">>), T(<<"I", "F", " ", "A", ">", "0", " ", "T", "H", "E", "N", " ", "R", "U", "N">>)>>),
    Typed(<<T(<<"I", "F", " ", "1">>), T(<<"I", "F", " ", "1", "=", "1">>), T(<<"I", "F", " ", "1", "<", ">", "2", " ", "T", "H", "E", "N", " ", "A", "=", "3">>), T(<<"I", "F", " ", "2", ">", "1", " ", "T", "H", "E", "N", " ", "B", "=", "4">>), T(<<"I", "F", " ", "1", "+", "=", "1", " ", "T", "H", "E", "N", " ", "A", "=", "1">>), T(<<"I", "F", " ", "1", "=", "2", "*", " ", "T", "H", "E", "N", " ", "A", "=", "1">>)>>),
    Typed(<<T(<<"1", " ", "I", "F", " ", "1", "=", "1", " ", "T", "H", "E", "N", " ", "F", "O", "O">>), T(<<"2", " ", "A", "=", "1">>), T(<<"R", "U", "N">>)>>),
    Typed(<<T(<<"R", "E", "M", " ", "A", "=", "5">>), T(<<"L", "E", "T">>)>>),
    Typed(<<T(<<"L", "E", "T">>)>>),
    Typed(<<T(<<"L", "E", "T", " ", "A", "=", "2">>), T(<<"L", "E", "T", " ", " ", "B", " ", "=", " ", "A", "+", "1">>), T(<<"C", " ", "=", " ", "B", "*", "2">>)>>),
    Typed(<<T(<<"L", "E", "T", " ", "5", "=", "1">>), T(<<"L", "E", "T", " ", "A", " ", "5">>), T(<<"A", "=", "1">>), T(<<"L", "E", "T">>)>>),
    Typed(<<T(<<"1", " ", "A", "=", "A", "+", "1">>), T(<<"2", " ", "B", "=", "A">>), T(<<"R", "U", "N">>), T(<<"R", "U", "N">>)>>),
    Typed(<<T(<<"A", "=", "2">>), T(<<"A", "=", "2", "+">>), T(<<"B", "=", "A">>)>>),
    Typed(<<T(<<"A", "=", "3">>), T(<<"1", " ", "B", "=", "A">>), T(<<"R", "U", "N">>), T(<<"N", "E", "W">>), T(<<"Y">>), T(<<"A", "=", "A", "+", "1">>)>>),
    Typed(<<T(<<"I", "N", "P", "U", "T", " ", "A">>), T(<<"7">>)>>),
    Typed(<<T(<<"I", "N", "P", "U", "T", " ", "A">>), T(<<"1", "2">>) \o <<BACKSPACE>> \o T(<<"3">>)>>),
    Typed(<<T(<<"I", "N", "P", "U", "T", " ", "A">>), T(<<"0", "x", "1", "0">>)>>),
    Typed(<<T(<<"I", "N", "P", "U", "T", " ", "A">>), T(<<"0", "1", "0">>)>>),
    Typed(<<T(<<"I", "N", "P", "U", "T", " ", "A">>), T(<<"0", "b", "1", "1">>)>>),
    Typed(<<T(<<"I", "N", "P", "U", "T", " ", "A">>), T(<<"1", "+", "2", "*", "3">>)>>),
    Typed(<<T(<<"I", "N", "P", "U", "T", " ", "A">>), T(<<"1", "+">>)>>),
    Typed(<<T(<<"I", "N", "P", "U", "T", " ", "b">>), T(<<"-", "4">>)>>),
    Typed(<<T(<<"I", "N", "P", "U", "T">>), T(<<"I", "N", "P", "U", "T", " ", "A", "B">>), T(<<"I", "N", "P", "U", "T", " ", "5">>)>>),
    Typed(<<T(<<"B", "=", "2">>), T(<<"I", "N", "P", "U", "T", " ", "A">>), T(<<"B", "*", "0", "1", "0">>)>>),
    Typed(<<T(<<"I", "N", "P", "U", "T", " ", "A">>), T(<<" ", "0", "x", "1", "F", " ">>)>>),
    Typed(<<T(<<"I", "N", "P", "U", "T", " ", "A">>), T(<<"0", "1", "7", "+", "1">>)>>),
    Typed(<<T(<<"1", " ", "R", "E", "M">>), T(<<"N", "E", "W">>), T(<<"Y">>)>>),
    Typed(<<T(<<"1", " ", "R", "E", "M">>), T(<<"N", "E", "W">>), T(<<"n">>)>>),
    Typed(<<T(<<"R", "U", "N">>)>>),
    Typed(<<T(<<"1", " ", "R", "E", "M">>), T(<<"N", "E", "W">>), T(<<"y">>), T(<<"R", "U", "N">>)>>),
    Typed(<<T(<<" ", " ", "A", "=", "1">>)>>),
    Typed(<<T(<<" ", " ", " ">>), T(<<"A", "=", "2">>)>>),
    Typed(<<T(<<" ", " ", "1", "0", " ", "A", "=", "1">>)>>),
    Typed(<<T(<<" ", " ", " ">>), T(<<"1", "0", " ", "A", "=", "1">>)>>),
    Typed(<<T(<<" ", "R", "E", "M">>), T(<<" ", " ">>), T(<<" ">>), T(<<"B", "=", "3">>)>>),
    Typed(<<T(<<"R", "E", "M", " ", "x", "x", "x", "x", "x", "x", "x", "x", "x", "x", "x", "x", "x", "x", "x", "x", "x", "x", "x", "x", "x", "x", "x", "x", "x", "x", "x", "x", "x", "x", "x", "x", "x", "x", "x", "x", "x", "x", "x", "x", "x", "x", "x", "x", "x", "x", "x", "x", "x", "x", "x", "x", "x", "x", "x", "x", "x", "x", "x", "x", "x", "x", "x", "x", "x", "x">>)>>),
    Typed(<<T(<<"1", "0", " ", " ", " ">>) \o <<BACKSPACE>> \o <<BACKSPACE>> \o <<BACKSPACE>>, T(<<"L", "I", "S", "T">>)>>),
    Typed(<<T(<<"1", "0", " ", "A", " ">>) \o <<BACKSPACE>> \o <<BACKSPACE>>, T(<<"2", "0", " ", "B">>)>>),
    Typed(<<T(<<"0", "1", "0", " ", "X">>)>>),
    Typed(<<T(<<"1", "0", "P", "R", "I", "N", "T", " ", "1">>)>>),
    Typed(<<T(<<"1", "0", " ", "P", "R", "I", "N", "T", " ", "1">>)>>),
    Typed(<<T(<<"0", "8", " ", "X">>)>>),
    Typed(<<T(<<"7", " ", "A", "=", "1", " ">>), T(<<"7">>)>>),
    Typed(<<T(<<"0", "x", "1", "0", " ", "A">>)>>),
    Typed(<<T(<<"1", "2", " ", "A">>), T(<<"0", "1", "2", " ", "B">>)>>) }

InitRun == \E stream \in Scripts : Start(RunMemSize, [i \in 0..25 |-> 0], stream)

NextRun ==
  \/ HandleShell({})
  \/ ExecuteNewline
  \/ RunStep
  \/ HandleInput
  \/ HandleNew

SpecRun == InitRun /\ [][NextRun]_vars

(***************************************************************************)
(* The code store as its users see it, and the pending line as typed       *)
(***************************************************************************)
\* what LIST shows of the store
Listing == handle_list(codemem, codemem_end)

LineNumbers(l) == {l[i].linenum : i \in 1..Len(l)}

\* the body listed for line n
BodyOf(l, n) == l[CHOOSE i \in 1..Len(l) : l[i].linenum = n].body

RecordSize(body) == Len(body) + 3

RECURSIVE StoreSize(_)
StoreSize(l) == IF l = <<>> THEN 0 ELSE RecordSize(Head(l).body) + StoreSize(Tail(l))

\* the listing without line n, and with line n holding body (in its place by number)
Without(l, n) == SelectSeq(l, LAMBDA r : r.linenum # n)

With(l, n, body) ==
  SelectSeq(l, LAMBDA r : r.linenum < n) \o <<[linenum |-> n, body |-> body]>>
  \o SelectSeq(l, LAMBDA r : r.linenum > n)

\* the bytes of [newline_ind, newline_end)
PendingLine == [i \in 1..(newline_end - newline_ind) |-> codemem[newline_ind + i - 1]]

LeadingBlanks(s) ==
  CHOOSE k \in 0..Len(s) : /\ \A i \in 1..k : isblank(s[i])
                           /\ (k = Len(s) \/ ~isblank(s[k + 1]))

LeadingDigits(s) ==
  CHOOSE k \in 0..Len(s) : /\ \A i \in 1..k : isdigit(s[i])
                           /\ (k = Len(s) \/ ~isdigit(s[k + 1]))

LeadingAlnums(s) ==
  CHOOSE k \in 0..Len(s) : /\ \A i \in 1..k : isalnum(s[i])
                           /\ (k = Len(s) \/ ~isalnum(s[k + 1]))

TrailingBlanks(s) ==
  CHOOSE k \in 0..Len(s) : /\ \A i \in (Len(s) - k + 1)..Len(s) : isblank(s[i])
                           /\ (k = Len(s) \/ ~isblank(s[Len(s) - k]))

Drop(s, k) == SubSeq(s, k + 1, Len(s))

RECURSIVE DecimalValue(_)
DecimalValue(s) ==
  IF s = <<>> THEN 0 ELSE 10 * DecimalValue(SubSeq(s, 1, Len(s) - 1)) + (s[Len(s)] - 48)

\* a typed line read as <number> <blanks> <body>: the number is the decimal
\* value of the leading digits, the body is what follows the alphanumeric run
\* of the number and the blanks after it, without its trailing blanks
EditLine(s) ==
  LET t == Drop(s, LeadingBlanks(s))
      d == LeadingDigits(t)
      rest == Drop(t, LeadingAlnums(t))
      body0 == Drop(rest, LeadingBlanks(rest))
  IN  [isedit |-> d > 0,
       n |-> DecimalValue(SubSeq(t, 1, d)),
       numberonly |-> d > 0 /\ d = Len(t) - LeadingBlanks(Drop(t, d)),
       body |-> SubSeq(body0, 1, Len(body0) - TrailingBlanks(body0))]

\* store_line is about to act on a line with a valid number
Editing ==
  /\ pc = "execute"
  /\ status = "running"
  /\ EditLine(PendingLine).isedit
  /\ EditLine(PendingLine).n \in 1..(MAX_LINENUM - 1)

\* code_end once the record of line n, if there is one, is removed
EndWithout(n) ==
  IF n \in LineNumbers(Listing)
  THEN codemem_end - RecordSize(BodyOf(Listing, n)) ELSE codemem_end

\* the store as the operations are meant to keep it
ProperStore ==
  LET l == Listing
  IN  /\ StoreSize(l) = codemem_end
      /\ \A i \in 1..Len(l) :
            l[i].linenum \in 1..(MAX_LINENUM - 1) /\ l[i].body # <<>>
      /\ \A i \in 1..Len(l) : \A j \in 1..Len(l) : i < j => l[i].linenum < l[j].linenum

(***************************************************************************)
(* C1: after any sequence of store_line operations the records have        *)
(* strictly ascending line numbers, each in 1..MAX_LINENUM-1.              *)
(***************************************************************************)
C1_Ascending ==
  LET l == Listing
  IN  /\ \A i \in 1..Len(l) : l[i].linenum >= 1 /\ l[i].linenum < MAX_LINENUM
      /\ \A i \in 1..Len(l) : \A j \in 1..Len(l) : i < j => l[i].linenum < l[j].linenum

(***************************************************************************)
(* C2: a pending line that is only a line number n (and blanks) inserts    *)
(* nothing: record n, if present, is removed and code_end shrinks by its   *)
(* size; otherwise the store is unchanged.                                 *)
(***************************************************************************)
C2_NumberOnlyDeletes ==
  [][(Editing /\ ProperStore /\ EditLine(PendingLine).numberonly) =>
       LET n == EditLine(PendingLine).n
       IN  /\ status' = "running"
           /\ Listing' = Without(Listing, n)
           /\ codemem_end' = EndWithout(n)]_vars

(***************************************************************************)
(* C3: storing an existing line number with a non-empty body replaces the  *)
(* record: one record n with the new body, the others unchanged and in     *)
(* order, code_end = prior code_end - old size + new size.                 *)
(***************************************************************************)
C3_Replace ==
  [][(/\ Editing
      /\ ProperStore
      /\ EditLine(PendingLine).body # <<>>
      /\ EditLine(PendingLine).n \in LineNumbers(Listing)) =>
       LET n == EditLine(PendingLine).n
           body == EditLine(PendingLine).body
       IN  /\ Listing' = With(Listing, n, body)
           /\ codemem_end' = EndWithout(n) + RecordSize(body)]_vars

(***************************************************************************)
(* C4: the store is gap-free: the records walked from offset 0 end exactly *)
(* at code_end, the sum of (body length + 3) being code_end.               *)
(***************************************************************************)
C4_GapFree == StoreSize(Listing) = codemem_end

\* line 2 of three was deleted and the two left fill [0, code_end)
C4_Witness ==
  /\ pc = "read"
  /\ input = <<>>
  /\ status = "running"
  /\ typed = T(<<"2">>) \o <<NEWLINE>>
  /\ LineNumbers(Listing) = {1, 3}
  /\ codemem_end = 8
  /\ StoreSize(Listing) = codemem_end

(***************************************************************************)
(* C5: for every insertion store_line accepts, the body LIST prints for    *)
(* the line is the typed body with its trailing blanks stripped.           *)
(***************************************************************************)
C5_BodyIdentical ==
  [][(/\ Editing
      /\ ProperStore
      /\ EditLine(PendingLine).body # <<>>
      /\ msg' # "oom"
      /\ status' = "running") =>
       LET n == EditLine(PendingLine).n
       IN  /\ n \in LineNumbers(Listing')
           /\ BodyOf(Listing', n) = EditLine(PendingLine).body]_vars

(***************************************************************************)
(* C6 as claimed: a line with body length L is inserted whenever           *)
(* CODE_MEMORY_SIZE - code_end >= L + 3 (code_end after the replaced       *)
(* record was removed); out of memory only when less is free.              *)
(***************************************************************************)
C6_MemoryCheck3 ==
  [][(Editing /\ EditLine(PendingLine).body # <<>>) =>
       LET L == Len(EditLine(PendingLine).body)
           end == EndWithout(EditLine(PendingLine).n)
       IN  IF CODE_MEMORY_SIZE - end >= L + 3
           THEN msg' = "none" /\ codemem_end' = end + L + 3
           ELSE msg' = "oom"]_vars

(***************************************************************************)
(* C6 amended: the line is inserted (code_end growing by L + 3) whenever   *)
(* CODE_MEMORY_SIZE - code_end >= L + 8, and out of memory is reported     *)
(* exactly when less than L + 8 is free.                                   *)
(***************************************************************************)
C6_MemoryCheck8 ==
  [][(Editing /\ EditLine(PendingLine).body # <<>>) =>
       LET L == Len(EditLine(PendingLine).body)
           end == EndWithout(EditLine(PendingLine).n)
       IN  IF CODE_MEMORY_SIZE - end >= L + 8
           THEN msg' = "none" /\ status' = "running" /\ codemem_end' = end + L + 3
           ELSE msg' = "oom" /\ codemem_end' = end]_vars

\* a line was refused although its record (L + 3 bytes) would fit
C6_Witness ==
  /\ pc = "read"
  /\ input = <<>>
  /\ msg = "oom"
  /\ LET e == EditLine(SubSeq(typed, 1, Len(typed) - 1))
     IN  /\ e.isedit
         /\ Len(e.body) > 0
         /\ CODE_MEMORY_SIZE - codemem_end >= Len(e.body) + 3
         /\ CODE_MEMORY_SIZE - codemem_end < Len(e.body) + 8

(***************************************************************************)
(* C7: replacing line n is atomic: afterwards exactly one record n is      *)
(* present, the new one, or the old one unchanged when out of memory.      *)
(***************************************************************************)
C7_AtomicReplace ==
  [][(/\ Editing
      /\ ProperStore
      /\ EditLine(PendingLine).body # <<>>
      /\ EditLine(PendingLine).n \in LineNumbers(Listing)) =>
       LET n == EditLine(PendingLine).n
       IN  /\ Cardinality({i \in 1..Len(Listing') : Listing'[i].linenum = n}) = 1
           /\ msg' = "oom" => Listing' = Listing]_vars

(***************************************************************************)
(* Conventional evaluation of an expression text: blanks dropped, single   *)
(* digits and variables as values, the classes {|,&,^} < {+,-} < {*,/,%},  *)
(* left to right inside a class, brackets first.                           *)
(***************************************************************************)
NoBlanks(e) == SelectSeq(e, LAMBDA c : ~isblank(c))

Level(c) ==
  IF c \in {124, 38, 94} THEN 1
  ELSE IF c \in {43, 45} THEN 2
  ELSE IF c \in {42, 47, 37} THEN 3
  ELSE 0

\* a parse result: the value, whether it is defined (no division by zero),
\* and the position behind what was read
Parsed(ok, def, val, pos) == [ok |-> ok, def |-> def, val |-> val, pos |-> pos]

Combine(c, a, b, pos) ==
  IF ~(a.def /\ b.def) \/ (c \in {47, 37} /\ b.val = 0) THEN Parsed(TRUE, FALSE, 0, pos)
  ELSE Parsed(TRUE, TRUE, ApplyBinary(OperatorType(c), a.val, b.val), pos)

RECURSIVE ParseLevel(_, _, _)
RECURSIVE ParseRest(_, _, _)
ParseLevel(e, pos, l) ==
  IF l > 3
  THEN IF pos > Len(e) THEN Parsed(FALSE, FALSE, 0, pos)
       ELSE IF isdigit(e[pos]) THEN Parsed(TRUE, TRUE, e[pos] - 48, pos + 1)
       ELSE IF isalpha(e[pos]) THEN Parsed(TRUE, TRUE, variables[toupper(e[pos]) - 65], pos + 1)
       ELSE IF e[pos] = 40
         THEN LET inner == ParseLevel(e, pos + 1, 1)
              IN  IF inner.ok /\ inner.pos <= Len(e) /\ e[inner.pos] = 41
                  THEN [inner EXCEPT !.pos = inner.pos + 1]
                  ELSE Parsed(FALSE, FALSE, 0, pos)
       ELSE Parsed(FALSE, FALSE, 0, pos)
  ELSE LET first == ParseLevel(e, pos, l + 1)
       IN  IF first.ok THEN ParseRest(e, first, l) ELSE first

ParseRest(e, acc, l) ==
  IF acc.pos <= Len(e) /\ Level(e[acc.pos]) = l
  THEN LET rhs == ParseLevel(e, acc.pos + 1, l + 1)
       IN  IF rhs.ok THEN ParseRest(e, Combine(e[acc.pos], acc, rhs, rhs.pos), l) ELSE rhs
  ELSE acc

\* no two alphanumerics in a row: every value is one digit or one letter
SingleValues(e) == \A i \in 1..(Len(e) - 1) : ~(isalnum(e[i]) /\ isalnum(e[i + 1]))

Conventional(e) ==
  LET p == ParseLevel(NoBlanks(e), 1, 1)
  IN  [wellformed |-> SingleValues(e) /\ p.ok /\ p.pos = Len(NoBlanks(e)) + 1,
       def |-> p.def, val |-> p.val]

\* the shell has executed the line <letter>=<expression>
Assigned ==
  /\ pc = "read"
  /\ input = <<>>
  /\ Len(typed) >= 3
  /\ isalpha(typed[1])
  /\ typed[2] = 61
  /\ typed[Len(typed)] = NEWLINE

AssignedText == SubSeq(typed, 3, Len(typed) - 1)

AssignedVariable == variables[toupper(typed[1]) - 65]

(***************************************************************************)
(* C8: for every well-formed expression over values, the binary operators  *)
(* and balanced brackets (no division by zero) expr_solve returns the      *)
(* value of conventional evaluation.                                       *)
(***************************************************************************)
C8_Conventional ==
  (Assigned /\ Conventional(AssignedText).wellformed /\ Conventional(AssignedText).def)
    => /\ status = "running"
       /\ msg = "none"
       /\ AssignedVariable = Conventional(AssignedText).val

\* 3-1-1 was solved: the leftmost of two equal operators first
C8_Witness ==
  /\ Assigned
  /\ typed = T(<<"A", "=", "3", "-", "1", "-", "1">>) \o <<NEWLINE>>
  /\ Conventional(AssignedText).wellformed
  /\ AssignedVariable = 1

(***************************************************************************)
(* C9 as claimed: chained unary operators are rejected: an expression such *)
(* as --5 makes expr_solve report a syntax error.                          *)
(***************************************************************************)
\* two or more unary operators in a row before one digit
UnaryChain(e) ==
  /\ Len(e) >= 3
  /\ isdigit(e[Len(e)])
  /\ \A i \in 1..(Len(e) - 1) : e[i] \in {43, 45, 33}

C9_ChainedRejected ==
  (Assigned /\ UnaryChain(AssignedText)) => msg = "expression"

(***************************************************************************)
(* C9 amended: chained unary operators are accepted: the operators of an   *)
(* expression such as --5 are applied to the value, the rightmost first,   *)
(* and expr_solve returns the result without error.                        *)
(***************************************************************************)
RECURSIVE ApplyChain(_)
ApplyChain(e) ==
  IF Len(e) = 1 THEN e[1] - 48
  ELSE LET v == ApplyChain(Tail(e))
       IN  IF e[1] = 45 THEN -v ELSE IF e[1] = 33 THEN -v - 1 ELSE v

C9_ChainedApplied ==
  (Assigned /\ UnaryChain(AssignedText))
    => /\ status = "running"
       /\ msg = "none"
       /\ AssignedVariable = ApplyChain(AssignedText)

\* !-2 was solved and gave 1
C9_Witness ==
  /\ Assigned
  /\ typed = T(<<"A", "=", "!", "-", "2">>) \o <<NEWLINE>>
  /\ msg = "none"
  /\ AssignedVariable = 1

(***************************************************************************)
(* C10: the outcome of a solve depends only on the span and the variables: *)
(* what the statement does is what it does on the workspace as it is       *)
(* before the first solve, whatever was solved before.                     *)
(***************************************************************************)
FreshOutcome ==
  execute_newline(Extend(codemem, 0), codemem_end, newline_ind, newline_end,
                  variables, ZeroTokens, 0)

C10_NoCarryOver ==
  [][(pc = "execute" /\ status = "running" /\ ~EditLine(PendingLine).isedit) =>
       /\ variables' = FreshOutcome.vars
       /\ msg' = FreshOutcome.msg
       /\ (status' = "crashed") = FreshOutcome.crashed]_vars

(***************************************************************************)
(* C11  The decimal text that print_signed produces for a signed 32-bit    *)
(* value n, INT32_MIN and INT32_MAX included, evaluates (arithmetic modulo *)
(* 2^32) to n without error: once the line B=<text of A> has been          *)
(* executed, B equals A and no error was reported.                         *)
(***************************************************************************)
PrintedEvaluated == lines = 1 /\ pc = "read" /\ input = <<>>

RunIndex == run_stack[Len(run_stack)]

\* the messages of print_error; "Line n not found." and "No code to run" are
\* printed by handle_run itself
StatementError(message) == message \notin {"none", "line_not_found", "no_code"}

(***************************************************************************)
(* C12  Whenever a statement dispatched by the run loop reports an error,  *)
(* the directive it returns is TERMINATE and that run loop dispatches no   *)
(* further statement; this includes the mode-restricted commands on a      *)
(* program line and an INPUT statement with a missing or invalid target or *)
(* with a response that fails to evaluate.                                 *)
(***************************************************************************)
C12_ErrorTerminates ==
  [][(pc \in {"run", "input"} /\ run_stack # <<>> /\ status' = "running"
        /\ StatementError(msg'))
       => /\ nextline' = MAX_LINENUM
          /\ Len(run_stack') < Len(run_stack)]_vars

(***************************************************************************)
(* C13  From the moment RUN starts until it returns, the program bytes     *)
(* [0, code_end) and code_end never change, whatever statements the        *)
(* program lines hold (NEW or a nested RUN included), so that the index of *)
(* the run loop always points at the body of a stored record.  Stated for  *)
(* the steps taken while every run loop in progress is at such a body.     *)
(***************************************************************************)
StoreBytes == [i \in 0..(codemem_end - 1) |-> codemem[i]]

\* the indices at which the bodies of the records of listing l start
RECURSIVE BodyIndices(_, _)
BodyIndices(l, at) ==
  IF l = <<>> THEN {}
  ELSE {at + 2} \cup BodyIndices(Tail(l), at + RecordSize(Head(l).body))

\* a run is in progress, and every run loop is at the body of a stored record
Running ==
  /\ run_stack # <<>>
  /\ status = "running"
  /\ \A i \in 1..Len(run_stack) : run_stack[i] \in BodyIndices(Listing, 0)

C13_StoreFrozen ==
  [][Running => (codemem_end' = codemem_end /\ StoreBytes' = StoreBytes)]_vars

(***************************************************************************)
(* C14  Each time the run loop dispatches a statement, current_line is the *)
(* non-zero line number of the record being executed (the first record,    *)
(* and every record reached by CONTINUE or GOTO); current_line is 0        *)
(* whenever the shell reads or dispatches a line with no run in progress.  *)
(***************************************************************************)
C14_CurrentLine ==
  /\ (pc = "run" /\ Running)
       => /\ current_line # 0
          /\ current_line = load_line_t(codemem, RunIndex - 2)
  /\ (pc \in {"read", "execute"} /\ run_stack = <<>>) => current_line = 0

(***************************************************************************)
(* C15  When a statement in a run returns GOTO(n) and no record with line  *)
(* number n is stored, the run loop prints "Line n not found", dispatches  *)
(* no further statement and exits the run.                                 *)
(***************************************************************************)
\* what execute_command yields for the statement the run loop dispatches next
Dispatched ==
  execute_command(Extend(codemem, 0), newline_end, variables, expr_tokens,
                  expr_token_count, RunIndex)

C15_LineNotFound ==
  [][(pc = "run" /\ status = "running" /\ Dispatched.call = "none"
        /\ Dispatched.dir \notin {0, MAX_LINENUM}
        /\ Dispatched.dir \notin LineNumbers(Listing))
       => /\ msg' = "line_not_found"
          /\ msgline' = Dispatched.dir
          /\ Len(run_stack') < Len(run_stack)]_vars

(***************************************************************************)
(* C16  A GOTO statement returns the directive GOTO(t) only when the value *)
(* t of its literal satisfies 1 <= t < MAX_LINENUM; for every other value  *)
(* (0, 10000 and above, 65536 and above) it reports an invalid target and  *)
(* returns TERMINATE.                                                      *)
(***************************************************************************)
\* the value of the literal of the GOTO statement at index
GotoLiteral(index) ==
  get_literal_number(Extend(codemem, 0), skip_spaces(codemem, index + Len(kwd_goto)),
                     newline_end).value

C16_GotoRange ==
  [][(pc = "run" /\ status = "running" /\ command_compare(kwd_goto, codemem, RunIndex))
       => IF GotoLiteral(RunIndex) >= 1 /\ GotoLiteral(RunIndex) < MAX_LINENUM
          THEN nextline' = GotoLiteral(RunIndex)
          ELSE nextline' = MAX_LINENUM /\ msg' = "goto_target"]_vars


(***************************************************************************)
(* Claims about assignment, checked under SpecRun                          *)
(***************************************************************************)
\* the pending line is a LET statement: the keyword, bounded by a blank or
\* the end of the line
LetStatement ==
  /\ Len(PendingLine) >= Len(kwd_let)
  /\ \A i \in 1..Len(kwd_let) : toupper(PendingLine[i]) = kwd_let[i]
  /\ (Len(PendingLine) = Len(kwd_let) \/ PendingLine[Len(kwd_let) + 1] = 32)

\* s is, up to blanks, a letter followed by the sign
TargetAndSign(s) ==
  /\ Len(s) > LeadingBlanks(s)
  /\ isalpha(s[LeadingBlanks(s) + 1])
  /\ Len(s) > LeadingBlanks(s) + 1 + LeadingBlanks(Drop(s, LeadingBlanks(s) + 1))
  /\ s[LeadingBlanks(s) + 2 + LeadingBlanks(Drop(s, LeadingBlanks(s) + 1))] = 61

(***************************************************************************)
(* C17  A LET statement assigns only when the text after the keyword is,   *)
(* up to blanks, a letter followed by = and an expression: a LET statement *)
(* of any other form, the bare keyword included, reports an error and      *)
(* leaves every variable as it was, whatever bytes earlier input left      *)
(* behind the statement's terminating NUL.                                 *)
(***************************************************************************)
C17_LetForm ==
  [][(pc = "execute" /\ status = "running" /\ LetStatement
        /\ ~TargetAndSign(Drop(PendingLine, Len(kwd_let))))
       => /\ variables' = variables
          /\ msg' # "none"]_vars


\* the statement at index is one that can assign: LET, an assignment without
\* the keyword, or IF with its THEN statement
Assigning(index) ==
  \/ \A i \in 1..Len(kwd_let) : toupper(Rd(codemem, index + i - 1)) = kwd_let[i]
  \/ \A i \in 1..Len(kwd_if) : toupper(Rd(codemem, index + i - 1)) = kwd_if[i]
  \/ (isalpha(Rd(codemem, index)) /\ Rd(codemem, index + 1) \in {32, 61})

\* the index of the statement that the next step dispatches
DispatchIndex == IF pc = "run" THEN RunIndex ELSE newline_ind

\* the stored statement at index is <letter>=<letter>
Copying(index) ==
  /\ isalpha(Rd(codemem, index))
  /\ Rd(codemem, index + 1) = 61
  /\ isalpha(Rd(codemem, index + 2))
  /\ Rd(codemem, index + 3) = 0

\* the variables that a step changes
Changed == {i \in 0..25 : variables'[i] # variables[i]}

(***************************************************************************)
(* C18  Variables are changed only by a successful assignment: a step      *)
(* changes a variable only when it dispatches a LET (or IF ... THEN)       *)
(* statement or completes an INPUT, without error, and then it changes     *)
(* that one variable; starting a run and finishing a run reset nothing.    *)
(* A statement reads the values the statement before it left (X=Y gives X  *)
(* the current value of Y), and a variable whose letter was never typed    *)
(* reads as 0.                                                             *)
(***************************************************************************)
C18_VariablesPersist ==
  /\ [][(status' = "running" /\ variables' # variables)
          => /\ pc \in {"execute", "run", "input"}
             /\ msg' = "none"
             /\ Cardinality(Changed) = 1
             /\ IF pc = "input" THEN Changed = {variable}
                ELSE Assigning(DispatchIndex)]_vars
  /\ [][Len(run_stack') > Len(run_stack) => variables' = variables]_vars
  /\ [][(pc = "run" /\ status' = "running" /\ Copying(RunIndex))
          => variables'[toupper(Rd(codemem, RunIndex)) - 65]
               = variables[toupper(Rd(codemem, RunIndex + 2)) - 65]]_vars
  /\ [][\A i \in 0..25 :
          variables'[i] # 0 => \E j \in 1..Len(typed') : toupper(typed'[j]) = 65 + i]_vars

\* a second run has finished and has counted on from the values of the first
C18_Witness ==
  /\ pc = "read"
  /\ input = <<>>
  /\ run_stack = <<>>
  /\ Len(SelectSeq(typed, LAMBDA c : c = NEWLINE)) = 4
  /\ Listing = <<[linenum |-> 1, body |-> T(<<"A", "=", "A", "+", "1">>)],
                 [linenum |-> 2, body |-> T(<<"B", "=", "A">>)]>>
  /\ variables[0] = 2
  /\ variables[1] = 2


(***************************************************************************)
(* Claims about the text of a line, checked under SpecRun                  *)
(***************************************************************************)
\* s without its leading and trailing blanks
Stripped(s) ==
  SubSeq(Drop(s, LeadingBlanks(s)), 1,
         Len(s) - LeadingBlanks(s) - TrailingBlanks(Drop(s, LeadingBlanks(s))))

\* the pending line read as a decimal line number and a body
DecimalNumber == DecimalValue(SubSeq(PendingLine, 1, LeadingDigits(PendingLine)))

TextAfterDigits == Stripped(Drop(PendingLine, LeadingDigits(PendingLine)))

(***************************************************************************)
(* C19  For a pending line that starts with digits, store_line takes the   *)
(* decimal value of the leading digit run as the line number, and stores   *)
(* as body exactly the text after those digits and the blanks behind them, *)
(* without its trailing blanks (010 X is line 10, 10PRINT 1 has the body   *)
(* PRINT 1).  Stated for the first line stored, with a number in           *)
(* 1 .. MAX_LINENUM - 1 and a body that is not empty.                      *)
(***************************************************************************)
C19_DecimalLine ==
  [][(pc = "execute" /\ status = "running" /\ status' = "running" /\ codemem_end = 0
        /\ PendingLine # <<>> /\ isdigit(PendingLine[1])
        /\ DecimalNumber \in 1..(MAX_LINENUM - 1)
        /\ TextAfterDigits # <<>>)
       => Listing' = <<[linenum |-> DecimalNumber, body |-> TextAfterDigits]>>]_vars


\* the response that INPUT is about to read: the input up to its first NEWLINE
Response ==
  SubSeq(input, 1, (CHOOSE i \in 1..Len(input) :
                      input[i] = NEWLINE /\ \A j \in 1..(i - 1) : input[j] # NEWLINE) - 1)

\* the line <target>=<response> typed at the shell into a buffer of its own
LetLine ==
  [i \in 0..CODE_MEMORY_SIZE |->
     IF i = 0 THEN 65 + variable
     ELSE IF i = 1 THEN 61
     ELSE IF i - 1 <= Len(Response) THEN Response[i - 1]
     ELSE 0]

\* what LET <target> = <response> does in the present state
LetOutcome ==
  handle_let(LetLine, Len(Response) + 2, variables, expr_tokens, expr_token_count, 0)

(***************************************************************************)
(* C20  INPUT X evaluates the response as the expression evaluator         *)
(* evaluates the same text in a LET statement: for every response t that   *)
(* LET X = t accepts (binary, hex and octal literals included), INPUT X    *)
(* answered with t leaves X with the value that LET X = t would give it.   *)
(***************************************************************************)
C20_InputAsLet ==
  [][(pc = "input" /\ status = "running" /\ (\E i \in 1..Len(input) : input[i] = NEWLINE)
        /\ (\A i \in 1..Len(Response) : Response[i] # BACKSPACE)
        /\ LetOutcome.msg = "none" /\ ~LetOutcome.crashed)
       => variables'[variable] = LetOutcome.vars[variable]]_vars


(***************************************************************************)
(* Claims about the shell, checked under SpecRun                           *)
(***************************************************************************)
\* the pending line, terminated, dispatched at its first non-blank byte
DispatchedPastBlanks ==
  execute_command(Wr(Extend(codemem, 0), newline_end, 0), newline_end, variables,
                  expr_tokens, expr_token_count,
                  newline_ind + LeadingBlanks(PendingLine))

(***************************************************************************)
(* C21  On newline the shell skips the leading blanks of the pending line  *)
(* before deciding what to do.  A line of blanks followed by a statement   *)
(* has the effect of the statement dispatched at its first non-blank byte, *)
(* and after every processed newline that leaves the shell reading again,  *)
(* also for a line of blanks only, the pending region is empty:            *)
(* newline_ind = newline_end = codemem_end.                                *)
(***************************************************************************)
C21_LeadingBlanks ==
  [][(pc = "execute" /\ status = "running" /\ status' = "running")
       => /\ pc' = "read" => (newline_ind' = codemem_end' /\ newline_end' = codemem_end')
          /\ (/\ LeadingBlanks(PendingLine) < Len(PendingLine)
              /\ ~isdigit(PendingLine[LeadingBlanks(PendingLine) + 1])
              /\ DispatchedPastBlanks.call = "none")
               => /\ variables' = DispatchedPastBlanks.vars
                  /\ msg' = DispatchedPastBlanks.msg]_vars


\* execute_newline: the index behind the leading blanks of the pending line
FirstIndex == skip_spaces(codemem, newline_ind)

\* store_newline: the index behind the line number and the blanks after it
BodyIndex ==
  skip_spaces(codemem, FirstIndex + AlnumRun(codemem, FirstIndex, newline_end))

(***************************************************************************)
(* C22  The shell and store_line access the code buffer at indices in      *)
(* [0, CODE_MEMORY_SIZE) only, whatever characters, backspaces and         *)
(* newlines were typed: when execute_newline terminates a statement line   *)
(* with a NUL at newline_end, newline_end is an index of the buffer (also  *)
(* when the line fills the buffer up to its last byte), and the body       *)
(* length that store_newline computes as newline_end minus the index       *)
(* behind the line number is never below zero.                             *)
(***************************************************************************)
C22_InBounds ==
  (pc = "execute" /\ status = "running" /\ FirstIndex # newline_end)
    => IF isdigit(Rd(codemem, FirstIndex))
       THEN get_line_num(codemem, FirstIndex, newline_end) # 0
              => newline_end - BodyIndex >= 0
       ELSE newline_end \in 0..(CODE_MEMORY_SIZE - 1)

====
